---- MODULE Spec2Model ----
(***************************************************************************)
(* Verification model of the databend meta service and cascades optimizer. *)
(*                                                                         *)
(* The module holds one state machine per subsystem, each with its own     *)
(* specification:                                                          *)
(*   SpecForward   MetaNode::handle_forwardable_request and forwarding     *)
(*   SpecCascades  the cascades task scheduler (ExploreGroupTask, ...)     *)
(*   SpecTxn       SledTree::txn over a sled transaction                   *)
(*   SpecJoin      MetaNode::join_cluster                                  *)
(*   SpecSnapshot  RaftStoreBare::install_snapshot                         *)
(*   SpecStore     RaftStoreBare: create, update, close and reopen         *)
(*   SpecReplay    StateMachine::apply on two machines, snapshot restore   *)
(*   SpecLeader    MetaNode::get_leader over the metrics watch channel     *)
(*   SpecStop      MetaNode::stop and the background tasks                 *)
(*   SpecRewrite   SubqueryRewriter on an uncorrelated subquery            *)
(*   SpecMark      an ANY subquery rewritten to a mark join                *)
(*   SpecElection  leader election with one node partitioned away          *)
(*   SpecUaf       AsTxnKeySpace::update_and_fetch                         *)
(*   SpecRange     SledTree::range, range_remove and scan_prefix           *)
(*   SpecScalar    the scalar that replaces a subquery after unnesting     *)
(*   SpecAny       the plan the rewriter builds for an ANY subquery        *)
(*   SpecBoot      open_create_boot over the restarts of a node            *)
(*   SpecOverflowCast  SimpleDomain::overflow_cast between integer types   *)
(*   SpecJoinLeave join_cluster or leave_cluster, whichever the process    *)
(*                 runs                                                    *)
(***************************************************************************)
EXTENDS Integers, Sequences, FiniteSets, TLC

(***************************************************************************)
(* Bounds of the model.                                                    *)
(***************************************************************************)
NumNodes == 2
MaxForward == 2
NumGroups == 2
NumOps == 2
NumKeys == 2
NumVals == 1
MaxWrites == 2
MaxAttempts == 2
NumAddrs == 2
MaxJoin == 3
MaxSmId == 2
MaxTerm == 2
MaxLogLen == 2
MaxVersion == 3
MaxRows == 2
NumSqlVals == 2
MaxClock == 26
MaxEntries == 3
MaxCasts == 2
MaxStarts == 3
CastSpread == 1

(***************************************************************************)
(* Option<T>: None is the empty set, Some(x) the singleton.                *)
(***************************************************************************)
None == {}
Some(x) == {x}
IsSome(o) == o # {}
Unwrap(o) == CHOOSE x \in o : TRUE
OptionOf(S) == {None} \cup {Some(x) : x \in S}

Last(s) == s[Len(s)]

VARIABLES
    \* ---- forwarding (raftmeta.rs) ----
    current_leader,   \* [Nodes -> Option<NodeId>]: raft.metrics().borrow().current_leader of each node
    metrics_open,     \* [Nodes -> BOOLEAN]: the raft metrics sender of the node is not dropped
    entry,            \* the ForwardRequest as it entered the cluster: [kind, forward_to_leader]
    running,          \* Option<[node, forward]>: the innermost handle_forwardable_request call
                      \* that has not returned (the calls above it only await its answer)
    forward_calls,    \* number of forward_to calls made for this request
    last_decision,    \* Option<[received, as_leader, op_err, outcome, carried]>: what the latest
                      \* handle_forwardable_request call held, saw and did
    reply,            \* what the first caller received: "none" while pending
    \* ---- cascades tasks (explore_group.rs, apply_rule.rs) ----
    groups,           \* memo.groups: [group index -> [m_exprs, state]]
    tasks,            \* every task created so far, by task id (its position)
    ref_count,        \* the SharedCounter each task owns (Rc<SharedCounter>), by task id
    task_queue,       \* Scheduler::task_queue: task ids, front first
    failed,           \* a task returned Err and the scheduler run was abandoned
    \* ---- SledTree::txn (sled_tree.rs) ----
    tree,             \* SledTree::tree, the committed content: [Keys -> Option<Val>]
    tree_sync,        \* SledTree::sync
    txn,              \* the SledTree::txn call that runs or ran last
    \* ---- MetaNode::join_cluster (raftmeta.rs) ----
    conf,             \* RaftConfig: the join list and the advertise address
    is_opened,        \* sto.is_opened()
    join,             \* the join_cluster call: position, addresses contacted, result
    \* ---- RaftStoreBare::install_snapshot ----
    state_machine_id, \* raft_state: the persisted state-machine id, a pair
    state_machine,    \* the state machine in use: kvs, last_applied, membership
    log,              \* the raft log of the store
    new_sm,           \* the state machine the install is filling
    install,          \* the install_snapshot call that runs or ran last
    \* ---- RaftStoreBare: create, update, close and reopen (store.rs) ----
    disk,             \* what the store keeps on disk: id, hard state, log, last applied log id
    sto,              \* the RaftStoreBare handle of the running process
    closed,           \* what the store showed when it was closed, until it is updated again
    \* ---- StateMachine::apply and snapshot restore ----
    committed,        \* the committed log entries, in log order
    sm_a,             \* the state machine that applies every entry as it is committed
    sm_b,             \* a second state machine: applies the entries later, or is restored from a snapshot
    snap,             \* the latest snapshot built from sm_a
    restored,         \* Option<index>: the position sm_b was last restored at
    \* ---- MetaNode::get_leader over the metrics watch channel (raftmeta.rs) ----
    metrics,          \* the raft metrics watch channel: value (current_leader), version, closed
    gl,               \* the get_leader call: position, version its receiver has seen, result
    \* ---- MetaNode::stop and the background tasks (raftmeta.rs) ----
    raft_core,        \* the raft core task: running, shutting_down or ended
    mchan,            \* the raft metrics watch channel: version and closed
    signal_sent,      \* running_tx.send(()) was called
    bg,               \* the background tasks: [task -> state and whether it ended with an error]
    join_handles,     \* MetaNode::join_handles, the tasks in the order they were registered
    stop,             \* the MetaNode::stop call
    \* ---- SubqueryRewriter on an uncorrelated subquery (subquery_rewriter.rs) ----
    query,            \* the plan node, the scalar that holds the subquery, the outer rows and the subquery result
    rewritten,        \* what SubqueryRewriter::rewrite made of it
    output,           \* the rows the rewritten plan returns
    \* ---- ANY subquery as a mark join (subquery_rewriter.rs, hash_join/desc.rs) ----
    anyq,             \* the ANY subquery: kind of the child expression, outer values, subquery values
    mark_join,        \* the mark join the rewriter built, with the progress of its execution
    markers,          \* the marker of every outer row
    \* ---- leader election in a partitioned cluster (raftmeta.rs new_raft_config) ----
    raft_config,      \* the openraft Config built by new_raft_config
    isolated,         \* the node that is partitioned away
    raft,             \* role, term, vote and election timer of every node
    vote_reqs,        \* vote requests on their way between the reachable nodes
    clock,            \* time since the old leader was lost
    splits,           \* elections in which the votes were split
    \* ---- update_and_fetch in a transaction (sled_tree.rs) ----
    txn_tree,         \* the key space as the transaction sees it, by serialized key
    uaf,              \* the last update_and_fetch call: its inputs, the calls of f, its result
    \* ---- range operations on a key space (sled_tree.rs) ----
    sled_tree,        \* the serialized keys of one sled tree, shared by the key spaces
    range_call,       \* the last range, range_remove or scan_prefix call on the tree
    \* ---- leave_cluster (raftmeta.rs) ----
    leave_conf,       \* the --leave-via list and the --leave-id of the process
    leave,            \* progress and result of leave_cluster
    \* ---- the scalar that replaces a subquery (subquery_rewriter.rs) ----
    flatten,          \* what the unnesting reported, the subquery type and the output column per outer row
    replaced,         \* the scalar put in the place of the subquery
    evaluated,        \* its value for the outer rows evaluated so far
    \* ---- the rewrite of an ANY subquery (subquery_rewriter.rs) ----
    any_call,         \* the child expression, the comparison operator and the projection index of an ANY subquery
    any_plan,         \* what try_rewrite_uncorrelated_subquery returned for it
    \* ---- open_create_boot (raftmeta.rs) ----
    boot_disk,        \* the store directory of the node and how often init_cluster ran on it
    boot_mn,          \* the MetaNode of the last open_create_boot call
    boot_starts,      \* the number of calls of open_create_boot so far
    \* ---- SimpleDomain::overflow_cast (number.rs) ----
    ocast,            \* the source domain, the two number types and the result of overflow_cast
    \* ---- MetaNode::add_node ----
    add_node,         \* the running call of add_node
    add_node_calls,   \* calls of add_node made
    sm_nodes,         \* node ids with an applied AddNode entry
    learners,         \* node ids raft has as learners
    \* ---- NumberDataType::lossless_super_type ----
    super_type,       \* the operands and the result of lossless_super_type
    \* ---- FuseTable::to_partitions ----
    read_parts,       \* the blocks, the push downs and the result of to_partitions
    \* ---- Pipeline on_finished ----
    pipeline,         \* the Pipeline, with the history of its registrations
    invoked,          \* the calls of callbacks the pipeline has made
    \* ---- SubqueryRewriter::rewrite ----
    sq_plan           \* the plan given to SubqueryRewriter::rewrite and what it returned

forwardVars == <<current_leader, metrics_open, entry, running, forward_calls, last_decision, reply>>
cascadesVars == <<groups, tasks, ref_count, task_queue, failed>>

txnVars == <<tree, tree_sync, txn>>

joinVars == <<conf, is_opened, join>>

snapshotVars == <<state_machine_id, state_machine, log, new_sm, install>>

storeVars == <<disk, sto, closed>>

replayVars == <<committed, sm_a, sm_b, snap, restored>>

leaderVars == <<metrics, gl>>

stopVars == <<raft_core, mchan, signal_sent, bg, join_handles, stop>>

rewriteVars == <<query, rewritten, output>>

markVars == <<anyq, mark_join, markers>>

electionVars == <<raft_config, isolated, raft, vote_reqs, clock, splits>>

uafVars == <<txn_tree, uaf>>

rangeVars == <<sled_tree, range_call>>

leaveVars == <<leave_conf, leave>>

scalarVars == <<flatten, replaced, evaluated>>

anyVars == <<any_call, any_plan>>

bootVars == <<boot_disk, boot_mn, boot_starts>>

overflowCastVars == <<ocast>>

addNodeVars == <<add_node, add_node_calls, sm_nodes, learners>>

superTypeVars == <<super_type>>

partitionsVars == <<read_parts>>

pipelineVars == <<pipeline, invoked>>

rewriterVars == <<sq_plan>>

vars == <<forwardVars, cascadesVars, txnVars, joinVars, snapshotVars, storeVars, replayVars, leaderVars, stopVars, rewriteVars, markVars, electionVars, uafVars, rangeVars, leaveVars, scalarVars, anyVars, bootVars, overflowCastVars, addNodeVars, superTypeVars, partitionsVars, pipelineVars, rewriterVars>>

notForward == <<cascadesVars, txnVars, joinVars, snapshotVars, storeVars, replayVars, leaderVars, stopVars, rewriteVars, markVars, electionVars, uafVars, rangeVars, leaveVars, scalarVars, anyVars, bootVars, overflowCastVars, addNodeVars, superTypeVars, partitionsVars, pipelineVars, rewriterVars>>
notCascades == <<forwardVars, txnVars, joinVars, snapshotVars, storeVars, replayVars, leaderVars, stopVars, rewriteVars, markVars, electionVars, uafVars, rangeVars, leaveVars, scalarVars, anyVars, bootVars, overflowCastVars, addNodeVars, superTypeVars, partitionsVars, pipelineVars, rewriterVars>>
notTxn == <<forwardVars, cascadesVars, joinVars, snapshotVars, storeVars, replayVars, leaderVars, stopVars, rewriteVars, markVars, electionVars, uafVars, rangeVars, leaveVars, scalarVars, anyVars, bootVars, overflowCastVars, addNodeVars, superTypeVars, partitionsVars, pipelineVars, rewriterVars>>
notJoin == <<forwardVars, cascadesVars, txnVars, snapshotVars, storeVars, replayVars, leaderVars, stopVars, rewriteVars, markVars, electionVars, uafVars, rangeVars, leaveVars, scalarVars, anyVars, bootVars, overflowCastVars, addNodeVars, superTypeVars, partitionsVars, pipelineVars, rewriterVars>>
notSnapshot == <<forwardVars, cascadesVars, txnVars, joinVars, storeVars, replayVars, leaderVars, stopVars, rewriteVars, markVars, electionVars, uafVars, rangeVars, leaveVars, scalarVars, anyVars, bootVars, overflowCastVars, addNodeVars, superTypeVars, partitionsVars, pipelineVars, rewriterVars>>
notStore == <<forwardVars, cascadesVars, txnVars, joinVars, snapshotVars, replayVars, leaderVars, stopVars, rewriteVars, markVars, electionVars, uafVars, rangeVars, leaveVars, scalarVars, anyVars, bootVars, overflowCastVars, addNodeVars, superTypeVars, partitionsVars, pipelineVars, rewriterVars>>
notReplay == <<forwardVars, cascadesVars, txnVars, joinVars, snapshotVars, storeVars, leaderVars, stopVars, rewriteVars, markVars, electionVars, uafVars, rangeVars, leaveVars, scalarVars, anyVars, bootVars, overflowCastVars, addNodeVars, superTypeVars, partitionsVars, pipelineVars, rewriterVars>>
notLeader == <<forwardVars, cascadesVars, txnVars, joinVars, snapshotVars, storeVars, replayVars, stopVars, rewriteVars, markVars, electionVars, uafVars, rangeVars, leaveVars, scalarVars, anyVars, bootVars, overflowCastVars, addNodeVars, superTypeVars, partitionsVars, pipelineVars, rewriterVars>>
notStop == <<forwardVars, cascadesVars, txnVars, joinVars, snapshotVars, storeVars, replayVars, leaderVars, rewriteVars, markVars, electionVars, uafVars, rangeVars, leaveVars, scalarVars, anyVars, bootVars, overflowCastVars, addNodeVars, superTypeVars, partitionsVars, pipelineVars, rewriterVars>>
notRewrite == <<forwardVars, cascadesVars, txnVars, joinVars, snapshotVars, storeVars, replayVars, leaderVars, stopVars, markVars, electionVars, uafVars, rangeVars, leaveVars, scalarVars, anyVars, bootVars, overflowCastVars, addNodeVars, superTypeVars, partitionsVars, pipelineVars, rewriterVars>>
notMark == <<forwardVars, cascadesVars, txnVars, joinVars, snapshotVars, storeVars, replayVars, leaderVars, stopVars, rewriteVars, electionVars, uafVars, rangeVars, leaveVars, scalarVars, anyVars, bootVars, overflowCastVars, addNodeVars, superTypeVars, partitionsVars, pipelineVars, rewriterVars>>
notElection == <<forwardVars, cascadesVars, txnVars, joinVars, snapshotVars, storeVars, replayVars, leaderVars, stopVars, rewriteVars, markVars, uafVars, rangeVars, leaveVars, scalarVars, anyVars, bootVars, overflowCastVars, addNodeVars, superTypeVars, partitionsVars, pipelineVars, rewriterVars>>
notUaf == <<forwardVars, cascadesVars, txnVars, joinVars, snapshotVars, storeVars, replayVars, leaderVars, stopVars, rewriteVars, markVars, electionVars, rangeVars, leaveVars, scalarVars, anyVars, bootVars, overflowCastVars, addNodeVars, superTypeVars, partitionsVars, pipelineVars, rewriterVars>>
notRange == <<forwardVars, cascadesVars, txnVars, joinVars, snapshotVars, storeVars, replayVars, leaderVars, stopVars, rewriteVars, markVars, electionVars, uafVars, leaveVars, scalarVars, anyVars, bootVars, overflowCastVars, addNodeVars, superTypeVars, partitionsVars, pipelineVars, rewriterVars>>
notLeave == <<forwardVars, cascadesVars, txnVars, joinVars, snapshotVars, storeVars, replayVars, leaderVars, stopVars, rewriteVars, markVars, electionVars, uafVars, rangeVars, scalarVars, anyVars, bootVars, overflowCastVars, addNodeVars, superTypeVars, partitionsVars, pipelineVars, rewriterVars>>
notScalar == <<forwardVars, cascadesVars, txnVars, joinVars, snapshotVars, storeVars, replayVars, leaderVars, stopVars, rewriteVars, markVars, electionVars, uafVars, rangeVars, leaveVars, anyVars, bootVars, overflowCastVars, addNodeVars, superTypeVars, partitionsVars, pipelineVars, rewriterVars>>
notAny == <<forwardVars, cascadesVars, txnVars, joinVars, snapshotVars, storeVars, replayVars, leaderVars, stopVars, rewriteVars, markVars, electionVars, uafVars, rangeVars, leaveVars, scalarVars, bootVars, overflowCastVars, addNodeVars, superTypeVars, partitionsVars, pipelineVars, rewriterVars>>
notBoot == <<forwardVars, cascadesVars, txnVars, joinVars, snapshotVars, storeVars, replayVars, leaderVars, stopVars, rewriteVars, markVars, electionVars, uafVars, rangeVars, leaveVars, scalarVars, anyVars, overflowCastVars, addNodeVars, superTypeVars, partitionsVars, pipelineVars, rewriterVars>>
notOverflowCast == <<forwardVars, cascadesVars, txnVars, joinVars, snapshotVars, storeVars, replayVars, leaderVars, stopVars, rewriteVars, markVars, electionVars, uafVars, rangeVars, leaveVars, scalarVars, anyVars, bootVars, addNodeVars, superTypeVars, partitionsVars, pipelineVars, rewriterVars>>
notAddNode == <<forwardVars, cascadesVars, txnVars, joinVars, snapshotVars, storeVars, replayVars, leaderVars, stopVars, rewriteVars, markVars, electionVars, uafVars, rangeVars, leaveVars, scalarVars, anyVars, bootVars, overflowCastVars, superTypeVars, partitionsVars, pipelineVars, rewriterVars>>
notSuperType == <<forwardVars, cascadesVars, txnVars, joinVars, snapshotVars, storeVars, replayVars, leaderVars, stopVars, rewriteVars, markVars, electionVars, uafVars, rangeVars, leaveVars, scalarVars, anyVars, bootVars, overflowCastVars, addNodeVars, partitionsVars, pipelineVars, rewriterVars>>
notPartitions == <<forwardVars, cascadesVars, txnVars, joinVars, snapshotVars, storeVars, replayVars, leaderVars, stopVars, rewriteVars, markVars, electionVars, uafVars, rangeVars, leaveVars, scalarVars, anyVars, bootVars, overflowCastVars, addNodeVars, superTypeVars, pipelineVars, rewriterVars>>
notPipeline == <<forwardVars, cascadesVars, txnVars, joinVars, snapshotVars, storeVars, replayVars, leaderVars, stopVars, rewriteVars, markVars, electionVars, uafVars, rangeVars, leaveVars, scalarVars, anyVars, bootVars, overflowCastVars, addNodeVars, superTypeVars, partitionsVars, rewriterVars>>
notRewriter == <<forwardVars, cascadesVars, txnVars, joinVars, snapshotVars, storeVars, replayVars, leaderVars, stopVars, rewriteVars, markVars, electionVars, uafVars, rangeVars, leaveVars, scalarVars, anyVars, bootVars, overflowCastVars, addNodeVars, superTypeVars, partitionsVars, pipelineVars>>

RewriterIdle ==
    /\ sq_plan = <<>>

PipelineIdle ==
    /\ pipeline = <<>>
    /\ invoked = <<>>

PartitionsIdle ==
    /\ read_parts = <<>>

SuperTypeIdle ==
    /\ super_type = [a |-> "UInt8", b |-> "UInt8", called |-> FALSE, result |-> {}]

AddNodeIdle ==
    /\ add_node = [pc |-> "idle", node_id |-> 0, resp |-> "unbound",
                   add_learner_called |-> FALSE, ret |-> {}]
    /\ add_node_calls = 0
    /\ sm_nodes = {}
    /\ learners = {}

OverflowCastIdle ==
    /\ ocast = <<>>

BootIdle ==
    /\ boot_disk = <<>>
    /\ boot_mn = <<>>
    /\ boot_starts = 0

AnyIdle ==
    /\ any_call = <<>>
    /\ any_plan = <<>>

ScalarIdle ==
    /\ flatten = <<>>
    /\ replaced = <<>>
    /\ evaluated = <<>>

LeaveIdle ==
    /\ leave_conf = <<>>
    /\ leave = <<>>

RangeIdle ==
    /\ sled_tree = {}
    /\ range_call = <<>>

UafIdle ==
    /\ txn_tree = <<>>
    /\ uaf = <<>>

ElectionIdle ==
    /\ raft_config = <<>>
    /\ isolated = 0
    /\ raft = <<>>
    /\ vote_reqs = {}
    /\ clock = 0
    /\ splits = 0

MarkIdle ==
    /\ anyq = <<>>
    /\ mark_join = <<>>
    /\ markers = <<>>

RewriteIdle ==
    /\ query = <<>>
    /\ rewritten = <<>>
    /\ output = <<>>

StopIdle ==
    /\ raft_core = "none"
    /\ mchan = <<>>
    /\ signal_sent = FALSE
    /\ bg = <<>>
    /\ join_handles = <<>>
    /\ stop = <<>>

LeaderIdle ==
    /\ metrics = <<>>
    /\ gl = <<>>

ReplayIdle ==
    /\ committed = <<>>
    /\ sm_a = <<>>
    /\ sm_b = <<>>
    /\ snap = <<>>
    /\ restored = None

StoreIdle ==
    /\ disk = <<>>
    /\ sto = <<>>
    /\ closed = <<>>

NoInstall ==
    [pc |-> "idle", data |-> <<>>, id_at_call |-> <<>>, before |-> <<>>, copied |-> 0,
     result |-> "none"]

SnapshotIdle ==
    /\ state_machine_id = <<>>
    /\ state_machine = <<>>
    /\ log = <<>>
    /\ new_sm = <<>>
    /\ install = NoInstall

NoJoin ==
    [pc |-> "idle", next |-> 1, contacted |-> <<>>, rpcs |-> <<>>, data_from |-> None,
     result |-> "none", last_failure |-> None, error |-> None]

JoinIdle ==
    /\ conf = <<>>
    /\ is_opened = FALSE
    /\ join = NoJoin

NoTxn ==
    [pc |-> "idle", sync |-> FALSE, attempts |-> 0, overlay |-> <<>>, before |-> <<>>,
     writes |-> 0, closure_result |-> "none", result |-> "none", flushed |-> FALSE]

TxnIdle ==
    /\ tree = <<>>
    /\ tree_sync = FALSE
    /\ txn = NoTxn

CascadesIdle ==
    /\ groups = <<>>
    /\ tasks = <<>>
    /\ ref_count = <<>>
    /\ task_queue = <<>>
    /\ failed = FALSE

ForwardIdle ==
    /\ current_leader = <<>>
    /\ metrics_open = <<>>
    /\ entry = [kind |-> "none", forward_to_leader |-> 0]
    /\ running = None
    /\ forward_calls = 0
    /\ last_decision = None
    /\ reply = "none"

(***************************************************************************)
(* Forwarding: MetaNode::handle_forwardable_request                        *)
(***************************************************************************)
\* NodeId is u64; the configured id defaults to 0.
Nodes == 0 .. (NumNodes - 1)

\* MetaNode::get_leader returns at once when a leader is known, waits on
\* rx.changed() otherwise and returns 0 when the metrics sender is closed.
get_leader_returns(n) == IsSome(current_leader[n]) \/ ~metrics_open[n]

get_leader(n) ==
    IF IsSome(current_leader[n]) THEN Unwrap(current_leader[n]) ELSE 0

\* MetaNode::as_leader: Ok (TRUE) iff get_leader names this node.
as_leader_ok(n) == get_leader(n) = n

\* ForwardRequest::decr_forward
decr_forward(forward) == forward - 1

\* MetaLeader::handle_forwardable_req: Ok, a data error, or ForwardToLeader
\* with the leader raft names (leadership may have been lost meanwhile).
LeaderOutcomes ==
    {[kind |-> "Ok", leader_id |-> None], [kind |-> "DataError", leader_id |-> None]}
    \cup {[kind |-> "ForwardToLeader", leader_id |-> l] : l \in OptionOf(Nodes)}

\* MetaNode::forward_to before the RPC is sent: the endpoint lookup and the
\* connection can fail; otherwise the request is sent.
ForwardToOutcomes == {"GetNodeAddrError", "ConnectionError", "sent"}

\* Mutant: the budget check is lost.
budget_exhausted_never(forward) == forward < 0

\* handle_forwardable_request, "if forward == 0": the budget is used up.
budget_exhausted(forward) == forward = 0

\* Mutant: the forwarded request keeps the budget it arrived with.
forwarded_budget_kept(forward) == forward

\* handle_forwardable_request, "r2.decr_forward()": the budget the forwarded
\* request carries.
forwarded_budget(forward) == decr_forward(forward)

Decision(n, forward, local, outcome, to, carried) ==
    [node |-> n, received |-> forward, as_leader |-> local,
     outcome |-> outcome, to |-> to, carried |-> carried]

CanNotForwardMax == "CanNotForward:max number of forward reached"
CanNotForwardNoLeader == "CanNotForward:need to forward but no known leader"

\* Mutant: a data error goes on to the forwarding part.
data_error_forwarded(op_err) == FALSE

\* "MetaOperationError::DataError(d_err) => return Err(d_err.into())"
data_error_returned(op_err) == op_err.kind = "DataError"

\* "let op_err = match as_leader_res": what local handling gave, Ok included.
op_err_kind(n, op) == IF as_leader_ok(n) THEN op.kind ELSE "ForwardToLeader"

\* One run of handle_forwardable_request on node n holding budget forward, up
\* to its return or to the RPC it awaits: op is what the local leader logic
\* answers (used only when as_leader is Ok), net is how forward_to fares (used
\* only when the request is forwarded).
handle(n, forward, op, net) ==
    LET local  == as_leader_ok(n)
        op_err == IF local THEN op
                  ELSE [kind |-> "ForwardToLeader", leader_id |-> Some(get_leader(n))]
    IN  IF op_err.kind = "Ok"
            THEN Decision(n, forward, local, "Ok", None, None)
        ELSE IF data_error_returned(op_err)
            THEN Decision(n, forward, local, "DataError", None, None)
        ELSE IF budget_exhausted(forward)
            THEN Decision(n, forward, local, CanNotForwardMax, None, None)
        ELSE IF op_err.leader_id = None
            THEN Decision(n, forward, local, CanNotForwardNoLeader, None, None)
        ELSE Decision(n, forward, local, net, op_err.leader_id, Some(forwarded_budget(forward)))

\* The decision called forward_to.
called_forward_to(d) == d.outcome \in ForwardToOutcomes

ForwardInit ==
    /\ current_leader \in [Nodes -> OptionOf(Nodes)]
    /\ metrics_open = [n \in Nodes |-> TRUE]
    /\ entry = [kind |-> "none", forward_to_leader |-> 0]
    /\ running = None
    /\ forward_calls = 0
    /\ last_decision = None
    /\ reply = "none"
    /\ CascadesIdle
    /\ TxnIdle
    /\ JoinIdle
    /\ SnapshotIdle
    /\ StoreIdle
    /\ ReplayIdle
    /\ LeaderIdle
    /\ StopIdle
    /\ RewriteIdle
    /\ MarkIdle
    /\ ElectionIdle
    /\ UafIdle
    /\ RangeIdle
    /\ LeaveIdle
    /\ ScalarIdle
    /\ AnyIdle
    /\ BootIdle
    /\ OverflowCastIdle
    /\ AddNodeIdle
    /\ SuperTypeIdle
    /\ PartitionsIdle
    /\ PipelineIdle
    /\ RewriterIdle

\* openraft publishes new metrics on a node: the leader it knows changes.
RaftMetricsChange ==
    /\ \E n \in Nodes, l \in OptionOf(Nodes) :
          /\ metrics_open[n]
          /\ current_leader[n] # l
          /\ current_leader' = [current_leader EXCEPT ![n] = l]
    /\ UNCHANGED <<metrics_open, entry, running, forward_calls, last_decision, reply>>
    /\ UNCHANGED notForward

\* raft.shutdown() drops the metrics sender of a node.
RaftShutdown ==
    /\ \E n \in Nodes :
          /\ metrics_open[n]
          /\ metrics_open' = [metrics_open EXCEPT ![n] = FALSE]
    /\ UNCHANGED <<current_leader, entry, running, forward_calls, last_decision, reply>>
    /\ UNCHANGED notForward

\* A request enters handle_forwardable_request on node n.
Enter(n, kind, forward) ==
    /\ running = None
    /\ entry' = [kind |-> kind, forward_to_leader |-> forward]
    /\ running' = Some([node |-> n, forward |-> forward])
    /\ forward_calls' = 0
    /\ last_decision' = None
    /\ reply' = "none"
    /\ UNCHANGED <<current_leader, metrics_open>>
    /\ UNCHANGED notForward

\* MetaNode::write builds the request with forward_to_leader = 1.
write == \E n \in Nodes : Enter(n, "write", 1)

\* MetaNode::consistent_read builds the request with forward_to_leader = 1.
consistent_read == \E n \in Nodes : Enter(n, "consistent_read", 1)

\* The gRPC service hands a ForwardRequest of a client or of another process
\* to handle_forwardable_request, with whatever budget it carries.
GrpcForward == \E n \in Nodes, f \in 0 .. MaxForward : Enter(n, "forward", f)

\* The innermost handle_forwardable_request call runs: it returns (the value
\* passes unchanged through every forward_to above it, by "?"), or it sends
\* the forward RPC and the target node starts its own call.
HandleForwardableRequest ==
    /\ running # None
    /\ LET top == Unwrap(running) IN
       /\ get_leader_returns(top.node)
       /\ \E op \in LeaderOutcomes, net \in ForwardToOutcomes :
             LET d == handle(top.node, top.forward, op, net) IN
             /\ last_decision' = Some([received |-> d.received, as_leader |-> d.as_leader,
                                       op_err |-> op_err_kind(top.node, op),
                                       outcome |-> d.outcome, carried |-> d.carried])
             /\ forward_calls' = IF called_forward_to(d) THEN forward_calls + 1
                                 ELSE forward_calls
             /\ IF d.outcome = "sent"
                   THEN /\ running' = Some([node |-> Unwrap(d.to), forward |-> Unwrap(d.carried)])
                        /\ reply' = reply
                   ELSE /\ running' = None
                        /\ reply' = d.outcome
    /\ UNCHANGED <<current_leader, metrics_open, entry>>
    /\ UNCHANGED notForward

ForwardNext ==
    \/ RaftMetricsChange
    \/ RaftShutdown
    \/ write
    \/ consistent_read
    \/ GrpcForward
    \/ HandleForwardableRequest

SpecForward == ForwardInit /\ [][ForwardNext]_vars

\* The runtime keeps polling a handler whose get_leader can return.
SpecForwardFair == SpecForward /\ SF_vars(HandleForwardableRequest)

Pending == running # None

\* C1: a handle_forwardable_request call that holds forward_to_leader = 0 on a
\* node that is not the leader returns CanNotForward ("max number of forward
\* reached") and does not call forward_to; the error is what the caller gets.
C1_ZeroBudgetCanNotForward ==
    \A d \in last_decision :
        (d.received = 0 /\ ~d.as_leader) =>
            /\ d.outcome = CanNotForwardMax
            /\ ~called_forward_to(d)
            /\ d.carried = None
            /\ reply = CanNotForwardMax
            /\ ~Pending

\* C1 witness: a request forwarded once arrives with budget 0 at a node that is
\* not the leader either, and is refused there.
C1_Witness ==
    /\ forward_calls = 1
    /\ \E d \in last_decision : d.received = 0 /\ ~d.as_leader
    /\ reply = CanNotForwardMax

\* The budget bookkeeping of one request: the call that runs holds the entry
\* budget less the number of forward_to calls made, every forward_to call
\* carries one less than its caller holds, and the budget is never negative; so
\* the number of forward_to calls never exceeds the entry budget (1 for write
\* and consistent_read).
C2_Budget ==
    /\ \A d \in last_decision :
          /\ called_forward_to(d) => d.carried = Some(d.received - 1)
          /\ d.received >= 0
          /\ d.received = entry.forward_to_leader
                            - (IF called_forward_to(d) THEN forward_calls - 1 ELSE forward_calls)
    /\ \A r \in running : r.forward = entry.forward_to_leader - forward_calls /\ r.forward >= 0
    /\ forward_calls <= entry.forward_to_leader
    /\ entry.kind \in {"write", "consistent_read"} => forward_calls <= 1

\* get_leader of the innermost call can return.
HandlerCanRun == \A r \in running : get_leader_returns(r.node)

C22_DataErrorIsReturned ==
    \A d \in last_decision :
        /\ (d.as_leader /\ d.op_err = "DataError") =>
              /\ d.outcome = "DataError"
              /\ d.carried = None
              /\ running = None
              /\ reply = "DataError"
        /\ d.carried # None => d.op_err = "ForwardToLeader"

\* C22 witness: a leader holding the full budget met a data error and the
\* caller got it; nothing was forwarded.
C22_Witness ==
    /\ \E d \in last_decision :
          d.as_leader /\ d.op_err = "DataError" /\ d.received = MaxForward
    /\ reply = "DataError"
    /\ forward_calls = 0

\* A step in which the innermost handle_forwardable_request call ran.
HandlerStep == running # None /\ running' # running

C32_Step ==
    HandlerStep =>
        LET n == Unwrap(running).node IN
        \A d \in last_decision' :
            /\ d.as_leader => current_leader[n] = Some(n)
            /\ (current_leader[n] = None /\ ~metrics_open[n]) =>
                  ~d.as_leader /\ d.op_err = "ForwardToLeader"

\* C32: as_leader returns a MetaLeader only when the raft metrics name this
\* node as the current leader; when get_leader returns the no-leader sentinel
\* because the metrics channel is closed, as_leader returns ForwardToLeader,
\* whatever the id of the node.
C32_AsLeaderOnlyWhenNamed == [][C32_Step]_vars

\* The local leader logic answers ForwardToLeader without a leader id to a
\* request that holds a budget: the call returns CanNotForward.
C33_LeaderNamesNone ==
    \A n \in Nodes, forward \in 1 .. MaxForward, net \in ForwardToOutcomes :
        as_leader_ok(n) =>
            LET d == handle(n, forward, [kind |-> "ForwardToLeader", leader_id |-> None], net)
            IN d.outcome = CanNotForwardNoLeader /\ d.carried = None /\ d.to = None

\* get_leader of the node found no leader and the request holds a budget: the
\* call returns CanNotForward and no forward RPC is issued.
C33_Step ==
    HandlerStep =>
        LET n == Unwrap(running).node IN
        \A d \in last_decision' :
            (current_leader[n] = None /\ ~d.as_leader /\ d.received > 0) =>
                /\ d.outcome = CanNotForwardNoLeader
                /\ d.carried = None
                /\ forward_calls' = forward_calls
                /\ running' = None
                /\ reply' = CanNotForwardNoLeader

\* C33: when a request must be forwarded (budget > 0) but no leader is known,
\* handle_forwardable_request returns CanNotForward ("need to forward but no
\* known leader") and issues no forward RPC, both when the local leader logic
\* reports ForwardToLeader without a leader id and when get_leader found no
\* leader.
C33_NoLeaderCanNotForward == []C33_LeaderNamesNone /\ [][C33_Step]_vars

(***************************************************************************)
(* Cascades tasks: ExploreGroupTask, ExploreExprTask, ApplyRuleTask and    *)
(* the scheduler that runs them.                                           *)
(***************************************************************************)
GroupIndexes == 0 .. (NumGroups - 1)
Ops == 1 .. NumOps
RuleIDs == {"RuleA", "RuleB"}

\* Group g > 0 is built over group g - 1; the last group is the root.
RootGroup == NumGroups - 1
ChildrenOf(g) == IF g = 0 THEN <<>> ELSE <<g - 1>>

MExpr(g, op) == [plan |-> op, children |-> ChildrenOf(g)]

\* Tasks live in one table; a task's id is its position. A task that owns a
\* counter (ref_count) owns ref_count[id]; parent names the task whose counter
\* this task holds.
Task(type, state, g, m, rule, parent) ==
    [type |-> type, state |-> state, group_index |-> g, m_expr_index |-> m,
     last_explored_m_expr |-> None, rule_id |-> rule, parent |-> parent,
     scheduled |-> {}]

\* ExploreGroupTask::new / with_parent
ExploreGroupTask(g, parent) == Task("ExploreGroup", "Init", g, 0, "", parent)
\* ExploreExprTask::with_parent
ExploreExprTask(g, m, parent) == Task("ExploreExpr", "Init", g, m, "", parent)
\* ApplyRuleTask::with_parent
ApplyRuleTask(rule, g, m, parent) == Task("ApplyRule", "Init", g, m, rule, parent)

\* SharedCounter::inc, n times, and SharedCounter::dec
inc(counts, c, n) == [counts EXCEPT ![c] = @ + n]
dec(counts, c) == [counts EXCEPT ![c] = @ - 1]

\* "if let Some(parent) = &self.parent { parent.dec(); }"
dec_parent(counts, parent) ==
    IF parent = None THEN counts ELSE dec(counts, Unwrap(parent))

\* Group::num_exprs
num_exprs(g) == Len(groups[g].m_exprs)

\* Mutant: an explored task is explored again.
explored_again(state) == FALSE

\* execute: "if matches!(self.state, ExploreGroupState::Explored) { return Ok(()) }"
already_explored(state) == state = "Explored"

\* Mutant: every pass starts at the first m_expr.
start_index_from_first(last_explored) == 0

\* explore_group: "self.last_explored_m_expr.unwrap_or_default()"
start_index_of(last_explored) ==
    IF last_explored = None THEN 0 ELSE Unwrap(last_explored)

\* Mutant: a group that was explored once is taken to hold nothing new.
no_new_m_exprs_after_first_pass(start_index, n) == start_index > 0 \/ n = 0

\* explore_group: "if start_index == group.num_exprs()"
no_new_m_exprs(start_index, n) == start_index = n

\* Mutant: the task forgets its parent when its group is explored.
explored_counts_forgotten(counts, parent) == counts

\* explore_group: the counters after the group is found explored
explored_counts(counts, parent) == dec_parent(counts, parent)

\* ApplyRuleTask::execute: the counters after the rule results are inserted
applied_counts(counts, parent) == dec_parent(counts, parent)

\* Mutant: every transform result is added to the group.
insert_all_unchecked(m_exprs, new) == m_exprs \o new

\* Memo insertion of the transform results into the target group: an m_expr
\* equal in plan and children to one already there is not added again.
RECURSIVE insert_all(_, _)
insert_all(m_exprs, new) ==
    IF new = <<>> THEN m_exprs
    ELSE LET e == Head(new)
             present == \E i \in DOMAIN m_exprs : m_exprs[i] = e
         IN  insert_all(IF present THEN m_exprs ELSE Append(m_exprs, e), Tail(new))

\* A set of operators as a sequence in ascending order.
RECURSIVE Ascending(_)
Ascending(S) ==
    IF S = {} THEN <<>>
    ELSE LET x == CHOOSE y \in S : \A z \in S : y <= z
         IN  <<x>> \o Ascending(S \ {x})

\* The rules of the exploration rule set, in the order tasks are made for them.
RuleSeq == <<"RuleA", "RuleB">>

CascadesInit ==
    /\ \E n0 \in Ops :
          groups = [g \in GroupIndexes |->
                      [m_exprs |-> IF g = RootGroup
                                      THEN [i \in 1 .. n0 |-> MExpr(g, i)]
                                      ELSE <<MExpr(g, 1)>>,
                       state |-> "Init"]]
    /\ tasks = <<ExploreGroupTask(RootGroup, None)>>
    /\ ref_count = <<0>>
    /\ task_queue = <<1>>
    /\ failed = FALSE
    /\ ForwardIdle
    /\ TxnIdle
    /\ JoinIdle
    /\ SnapshotIdle
    /\ StoreIdle
    /\ ReplayIdle
    /\ LeaderIdle
    /\ StopIdle
    /\ RewriteIdle
    /\ MarkIdle
    /\ ElectionIdle
    /\ UafIdle
    /\ RangeIdle
    /\ LeaveIdle
    /\ ScalarIdle
    /\ AnyIdle
    /\ BootIdle
    /\ OverflowCastIdle
    /\ AddNodeIdle
    /\ SuperTypeIdle
    /\ PartitionsIdle
    /\ PipelineIdle
    /\ RewriterIdle

Running == task_queue # <<>> /\ ~failed

\* Scheduler::run: a task whose counter is not zero is put back at the end.
SchedulerRequeue ==
    /\ Running
    /\ ref_count[Head(task_queue)] > 0
    /\ task_queue' = Append(Tail(task_queue), Head(task_queue))
    /\ UNCHANGED <<groups, tasks, ref_count, failed>>
    /\ UNCHANGED notCascades

\* ExploreGroupTask::execute, with transition and explore_group.
ExploreGroupExecute ==
    /\ Running
    /\ LET t == Head(task_queue)
           task == tasks[t]
           g == task.group_index
           start_index == start_index_of(task.last_explored_m_expr)
           n == num_exprs(g)
           new == [i \in 1 .. (n - start_index) |->
                      ExploreExprTask(g, start_index + i - 1, Some(t))]
           ids == [i \in 1 .. (n - start_index) |-> Len(tasks) + i]
       IN
       /\ task.type = "ExploreGroup"
       /\ ref_count[t] = 0
       /\ IF already_explored(task.state)
             THEN /\ task_queue' = Tail(task_queue)
                  /\ UNCHANGED <<groups, tasks, ref_count>>
          ELSE IF no_new_m_exprs(start_index, n)
             THEN /\ groups' = [groups EXCEPT ![g].state = "Explored"]
                  /\ ref_count' = explored_counts(ref_count, task.parent)
                  /\ tasks' = [tasks EXCEPT ![t].state = "Explored"]
                  /\ task_queue' = Append(Tail(task_queue), t)
          ELSE    /\ tasks' = [tasks EXCEPT
                                  ![t].last_explored_m_expr = Some(n),
                                  ![t].scheduled = @ \cup (start_index .. (n - 1))] \o new
                  /\ ref_count' = inc(ref_count, t, Len(new)) \o [i \in DOMAIN new |-> 0]
                  /\ task_queue' = Tail(task_queue) \o ids \o <<t>>
                  /\ UNCHANGED groups
    /\ UNCHANGED failed
    /\ UNCHANGED notCascades

\* ExploreExprTask::execute: explore the child groups first, then make one
\* ApplyRuleTask per exploration rule, and finish when those are done.
ExploreExprExecute ==
    /\ Running
    /\ LET t == Head(task_queue)
           task == tasks[t]
           children == groups[task.group_index].m_exprs[task.m_expr_index + 1].children
           todo == SelectSeq(children, LAMBDA c : groups[c].state # "Explored")
           sub == [i \in DOMAIN todo |-> ExploreGroupTask(todo[i], Some(t))]
           rules == [i \in DOMAIN RuleSeq |->
                        ApplyRuleTask(RuleSeq[i], task.group_index, task.m_expr_index, Some(t))]
       IN
       /\ task.type = "ExploreExpr"
       /\ ref_count[t] = 0
       /\ CASE task.state = "ExploredSelf" ->
                  /\ task_queue' = Tail(task_queue)
                  /\ UNCHANGED <<tasks, ref_count>>
            [] task.state = "Init" /\ todo # <<>> ->
                  /\ tasks' = tasks \o sub
                  /\ ref_count' = inc(ref_count, t, Len(sub)) \o [i \in DOMAIN sub |-> 0]
                  /\ task_queue' = Tail(task_queue)
                                     \o [i \in DOMAIN sub |-> Len(tasks) + i] \o <<t>>
            [] task.state = "Init" /\ todo = <<>> ->
                  /\ tasks' = [tasks EXCEPT ![t].state = "ExploredChildren"]
                  /\ task_queue' = Append(Tail(task_queue), t)
                  /\ UNCHANGED ref_count
            [] task.state = "ExploredChildren" ->
                  /\ tasks' = [tasks EXCEPT ![t].state = "ExploringSelf"] \o rules
                  /\ ref_count' = inc(ref_count, t, Len(rules)) \o [i \in DOMAIN rules |-> 0]
                  /\ task_queue' = Tail(task_queue)
                                     \o [i \in DOMAIN rules |-> Len(tasks) + i] \o <<t>>
            [] task.state = "ExploringSelf" ->
                  /\ tasks' = [tasks EXCEPT ![t].state = "ExploredSelf"]
                  /\ ref_count' = dec_parent(ref_count, task.parent)
                  /\ task_queue' = Append(Tail(task_queue), t)
    /\ UNCHANGED <<groups, failed>>
    /\ UNCHANGED notCascades

\* ApplyRuleTask::execute: the rule yields some m_exprs over the same children,
\* they are inserted into the target group, then the parent is told.
ApplyRuleExecute ==
    /\ Running
    /\ LET t == Head(task_queue)
           task == tasks[t]
           g == task.group_index
       IN
       /\ task.type = "ApplyRule"
       /\ \E result \in SUBSET Ops :
             groups' = [groups EXCEPT ![g].m_exprs =
                          insert_all(@, [i \in 1 .. Cardinality(result) |->
                                            MExpr(g, Ascending(result)[i])])]
       /\ ref_count' = applied_counts(ref_count, task.parent)
       /\ tasks' = [tasks EXCEPT ![t].state = "Done"]
       /\ task_queue' = Tail(task_queue)
    /\ UNCHANGED failed
    /\ UNCHANGED notCascades

\* ApplyRuleTask::execute returns Err (the group, the m_expr or the rule is
\* not found, or the rule fails): the "?" leaves before parent.dec().
ApplyRuleFails ==
    /\ Running
    /\ tasks[Head(task_queue)].type = "ApplyRule"
    /\ task_queue' = Tail(task_queue)
    /\ failed' = TRUE
    /\ UNCHANGED <<groups, tasks, ref_count>>
    /\ UNCHANGED notCascades

CascadesNext ==
    \/ SchedulerRequeue
    \/ ExploreGroupExecute
    \/ ExploreExprExecute
    \/ ApplyRuleExecute
    \/ ApplyRuleFails

SpecCascades == CascadesInit /\ [][CascadesNext]_vars

\* The scheduler takes the next task as long as the queue holds one.
SpecCascadesFair == SpecCascades /\ WF_vars(CascadesNext)

\* A task is complete: an ExploreGroupTask once Explored, an ExploreExprTask
\* once ExploredSelf, an ApplyRuleTask once it has inserted its results.
CompletedIn(tk, u) ==
    \/ tk[u].type = "ExploreGroup" /\ tk[u].state = "Explored"
    \/ tk[u].type = "ExploreExpr" /\ tk[u].state = "ExploredSelf"
    \/ tk[u].type = "ApplyRule" /\ tk[u].state = "Done"

\* Task u was spawned, directly or through other tasks, for task t.
RECURSIVE SpawnedFor(_, _, _)
SpawnedFor(tk, u, t) ==
    /\ tk[u].parent # None
    /\ \/ Unwrap(tk[u].parent) = t
       \/ SpawnedFor(tk, Unwrap(tk[u].parent), t)

C3_Step ==
    \A t \in DOMAIN tasks :
        (/\ tasks[t].type = "ExploreGroup"
         /\ tasks[t].state = "Init"
         /\ tasks'[t].state = "Explored") =>
            LET g == tasks[t].group_index IN
            /\ groups'[g].state = "Explored"
            /\ tasks'[t].scheduled = 0 .. (Len(groups'[g].m_exprs) - 1)
            /\ \A u \in DOMAIN tasks' :
                  SpawnedFor(tasks', u, t) => CompletedIn(tasks', u)

\* C3: whenever an ExploreGroupTask marks its group Explored, every m_expr
\* then in the group (those added by rule application too) has been scheduled
\* for exploration by this task, and every exploration and rule-application
\* task spawned for them has completed.
C3_ExploredMeansAllExplored == [][C3_Step]_vars

\* C3 witness: the leaf group is marked Explored by a task that scheduled two
\* m_exprs, the second of which a rule added during the exploration.
C3_Witness ==
    /\ ~failed
    /\ \E t \in DOMAIN tasks :
          /\ tasks[t].type = "ExploreGroup" /\ tasks[t].state = "Explored"
          /\ tasks[t].group_index = 0
          /\ groups[0].state = "Explored"
          /\ Len(groups[0].m_exprs) = 2
          /\ tasks[t].scheduled = {0, 1}

\* C18: after any sequence of rule applications no group holds two m_exprs
\* with the same operator and the same child group indices.
C18_NoDuplicateMExpr ==
    \A g \in GroupIndexes :
        \A i, j \in DOMAIN groups[g].m_exprs :
            (/\ groups[g].m_exprs[i].plan = groups[g].m_exprs[j].plan
             /\ groups[g].m_exprs[i].children = groups[g].m_exprs[j].children) => i = j

\* C18 witness: rule applications grew the leaf group from one m_expr to
\* NumOps, and both rules have been applied to every one of them, each
\* application free to return m_exprs the group held already.
C18_Witness ==
    /\ ~failed
    /\ Len(groups[0].m_exprs) = NumOps
    /\ \A m \in 0 .. (NumOps - 1) : \A rule \in RuleIDs :
          \E t \in DOMAIN tasks :
              /\ tasks[t].type = "ApplyRule" /\ tasks[t].state = "Done"
              /\ tasks[t].group_index = 0
              /\ tasks[t].m_expr_index = m
              /\ tasks[t].rule_id = rule

\* The tasks that hold counter c and have not completed.
Holders(c) ==
    {u \in DOMAIN tasks : tasks[u].parent = Some(c) /\ ~CompletedIn(tasks, u)}

\* C4: in a run that does not fail, every SharedCounter equals the number of
\* tasks created with it as parent that have not completed (one inc per child
\* at creation, one dec per child at completion), is never negative, and is
\* zero once the task queue is empty.
C4_CounterCountsLiveChildren ==
    ~failed =>
        \A c \in DOMAIN ref_count :
            /\ ref_count[c] = Cardinality(Holders(c))
            /\ ref_count[c] >= 0
            /\ task_queue = <<>> => ref_count[c] = 0

\* C4 witness: the run ended without failure, the queue is empty, and the
\* tasks included child-group explorations and rule applications whose
\* results were added to the root group.
C4_Witness ==
    /\ ~failed
    /\ task_queue = <<>>
    /\ Len(groups[RootGroup].m_exprs) = NumOps
    /\ \E u \in DOMAIN tasks : tasks[u].type = "ExploreGroup" /\ tasks[u].parent # None
    /\ \E u \in DOMAIN tasks : tasks[u].type = "ApplyRule" /\ tasks[u].state = "Done"

\* The ExploreExprTasks that ExploreGroupTask t made, in the order it made them.
ExprTasksOf(tk, t) ==
    SelectSeq([u \in DOMAIN tk |-> u],
              LAMBDA u : tk[u].type = "ExploreExpr" /\ tk[u].parent = Some(t))

\* The watermark of ExploreGroupTask t.
Watermark(tk, t) ==
    IF tk[t].last_explored_m_expr = None THEN 0 ELSE Unwrap(tk[t].last_explored_m_expr)

\* The m_expr indexes 0 .. watermark - 1 have one ExploreExprTask each, made
\* in increasing order, and the watermark is within the group.
C24_Scheduled ==
    \A t \in DOMAIN tasks :
        tasks[t].type = "ExploreGroup" =>
            LET made == ExprTasksOf(tasks, t) IN
            /\ Watermark(tasks, t) <= num_exprs(tasks[t].group_index)
            /\ Len(made) = Watermark(tasks, t)
            /\ \A i \in DOMAIN made :
                  /\ tasks[made[i]].m_expr_index = i - 1
                  /\ tasks[made[i]].group_index = tasks[t].group_index

\* A step of an ExploreGroupTask in state Init.
C24_Step ==
    \A t \in DOMAIN tasks :
        (/\ Running /\ t = Head(task_queue) /\ ref_count[t] = 0
         /\ tasks[t].type = "ExploreGroup" /\ tasks[t].state = "Init") =>
            LET g == tasks[t].group_index
                start_index == Watermark(tasks, t)
                n == num_exprs(g)
                ids == [i \in 1 .. (n - start_index) |-> Len(tasks) + i]
            IN
            /\ Len(tasks') = Len(tasks) + (n - start_index)
            /\ \A i \in DOMAIN ids :
                  /\ tasks'[ids[i]].type = "ExploreExpr"
                  /\ tasks'[ids[i]].parent = Some(t)
                  /\ tasks'[ids[i]].group_index = g
                  /\ tasks'[ids[i]].m_expr_index = start_index + i - 1
            /\ task_queue' = Tail(task_queue) \o ids \o <<t>>
            /\ Watermark(tasks', t) = n
            /\ groups'[g].m_exprs = groups[g].m_exprs
            /\ tasks'[t].state = IF start_index = n THEN "Explored" ELSE "Init"

\* C24: each step of an ExploreGroupTask in state Init schedules one
\* ExploreExprTask for exactly the m_exprs with index >= last_explored_m_expr,
\* in increasing index order, and then has last_explored_m_expr at the group's
\* m_expr count; at every moment of the task's life each m_expr index below
\* the watermark has been scheduled exactly once and no other, and the
\* watermark never exceeds the group's m_expr count.
C24_WatermarkSchedulesOnce == []C24_Scheduled /\ [][C24_Step]_vars

\* C24 witness: an ExploreGroupTask of the leaf group has made two passes, the
\* second over m_exprs that rule application added after the first, and the
\* group has NumOps m_exprs, each scheduled by that task.
C24_Witness ==
    /\ ~failed
    /\ \E t \in DOMAIN tasks :
          /\ tasks[t].type = "ExploreGroup"
          /\ tasks[t].group_index = 0
          /\ tasks[t].last_explored_m_expr = Some(NumOps)
          /\ Len(ExprTasksOf(tasks, t)) = NumOps
          /\ num_exprs(0) = NumOps

\* The run is over: it failed, or the queue is empty and every
\* ExploreGroupTask is Explored.
C25_Drained ==
    \/ failed
    \/ /\ task_queue = <<>>
       /\ \A t \in DOMAIN tasks :
             tasks[t].type = "ExploreGroup" => tasks[t].state = "Explored"

\* An Explored task stays Explored, and executing it only takes it off the
\* queue.
C25_ExploredStep ==
    \A t \in DOMAIN tasks :
        (tasks[t].type = "ExploreGroup" /\ tasks[t].state = "Explored") =>
            /\ tasks'[t].state = "Explored"
            /\ (Running /\ t = Head(task_queue)) =>
                  /\ groups' = groups
                  /\ ref_count' = ref_count
                  /\ tasks' = tasks
                  /\ task_queue' = Tail(task_queue)

\* C25: rule application adding only finitely many m_exprs to a group, every
\* ExploreGroupTask eventually finds no entry past the watermark and moves from
\* Init to Explored; it never leaves Explored, and executing a task that is
\* already Explored changes no memo state, decrements no counter and enqueues
\* nothing, so the task queue eventually drains (unless a rule application
\* returned an error, which ends the run).
C25_ExploreGroupTerminates == <>[]C25_Drained /\ [][C25_ExploredStep]_vars

\* C25 witness: the queue has drained without a failure after the tasks of
\* both groups became Explored, the leaf group's task having made a pass for
\* every m_expr that rule application added.
C25_Witness ==
    /\ ~failed
    /\ task_queue = <<>>
    /\ \A g \in GroupIndexes :
          \E t \in DOMAIN tasks :
              /\ tasks[t].type = "ExploreGroup" /\ tasks[t].state = "Explored"
              /\ tasks[t].group_index = g
              /\ Watermark(tasks, t) = NumOps

(***************************************************************************)
(* SledTree::txn: a closure run inside sled's Tree::transaction.           *)
(***************************************************************************)
Keys == 1 .. NumKeys
Vals == 1 .. NumVals

\* What the closure f can return: Ok or one of the MetaStorageError variants.
AppErrors == {"BytesError", "SledError", "SnapshotError"}
ClosureResults == {"Ok", "TransactionConflict"} \cup AppErrors

\* The writes a closure can stage through TransactionSledTree.
Writes ==
    {[op |-> "insert", key |-> k, value |-> Some(v)] : k \in Keys, v \in Vals}
    \cup {[op |-> "remove", key |-> k, value |-> None] : k \in Keys}

\* sled commits the staged writes in the order they were made.
RECURSIVE apply_writes(_, _)
apply_writes(t, ws) ==
    IF ws = <<>> THEN t
    ELSE apply_writes([t EXCEPT ![Head(ws).key] = Head(ws).value], Tail(ws))

\* Mutant: TransactionConflict aborts the transaction like the other errors.
conflict_aborts(r, sync) ==
    IF r = "Ok" THEN [kind |-> "Ok", flush |-> sync, err |-> "none"]
    ELSE [kind |-> "Abort", flush |-> FALSE, err |-> r]

\* Mutant: flush() is called whatever the closure returned.
flush_on_any_result(r, sync) ==
    IF r = "Ok" THEN [kind |-> "Ok", flush |-> sync, err |-> "none"]
    ELSE IF r = "TransactionConflict"
        THEN [kind |-> "Conflict", flush |-> sync, err |-> "none"]
    ELSE [kind |-> "Abort", flush |-> sync, err |-> r]

\* The closure txn hands to sled: what f returned, as sled's
\* ConflictableTransactionResult; flush() is called only on Ok with sync set.
closure_to_sled(r, sync) ==
    IF r = "Ok" THEN [kind |-> "Ok", flush |-> sync, err |-> "none"]
    ELSE IF r = "TransactionConflict"
        THEN [kind |-> "Conflict", flush |-> FALSE, err |-> "none"]
    ELSE [kind |-> "Abort", flush |-> FALSE, err |-> r]

\* "match result": TransactionResult as txn's own result. TransactionError has
\* the two variants Abort and Storage; there is no conflict to hand back.
txn_result(sled_result) ==
    IF sled_result.kind = "Ok" THEN "Ok"
    ELSE IF sled_result.kind = "Abort" THEN sled_result.err
    ELSE "SledError"

TxnInit ==
    /\ tree \in [Keys -> OptionOf(Vals)]
    /\ tree_sync \in BOOLEAN
    /\ txn = NoTxn
    /\ ForwardIdle
    /\ CascadesIdle
    /\ JoinIdle
    /\ SnapshotIdle
    /\ StoreIdle
    /\ ReplayIdle
    /\ LeaderIdle
    /\ StopIdle
    /\ RewriteIdle
    /\ MarkIdle
    /\ ElectionIdle
    /\ UafIdle
    /\ RangeIdle
    /\ LeaveIdle
    /\ ScalarIdle
    /\ AnyIdle
    /\ BootIdle
    /\ OverflowCastIdle
    /\ AddNodeIdle
    /\ SuperTypeIdle
    /\ PartitionsIdle
    /\ PipelineIdle
    /\ RewriterIdle

\* SledTree::txn is called: sled opens a transaction and runs the closure.
TxnCall ==
    /\ txn.pc # "closure"
    /\ \E sync \in BOOLEAN :
          txn' = [NoTxn EXCEPT !.pc = "closure", !.sync = sync /\ tree_sync,
                               !.attempts = 1, !.before = tree]
    /\ UNCHANGED <<tree, tree_sync>>
    /\ UNCHANGED notTxn

\* The closure stages a write in the transaction.
ClosureWrites ==
    /\ txn.pc = "closure"
    /\ txn.writes < MaxWrites
    /\ \E w \in Writes :
          txn' = [txn EXCEPT !.overlay = Append(@, w), !.writes = @ + 1]
    /\ UNCHANGED <<tree, tree_sync>>
    /\ UNCHANGED notTxn

\* The closure returns and sled acts on it: Ok commits the staged writes,
\* Abort drops them and ends the transaction, Conflict drops them and runs
\* the closure again; a storage failure of sled itself ends with no commit.
ClosureReturns ==
    /\ txn.pc = "closure"
    /\ \E r \in ClosureResults, storage_ok \in BOOLEAN :
          LET c == closure_to_sled(r, txn.sync)
              sled_result == IF c.kind = "Ok" /\ ~storage_ok
                                THEN [kind |-> "Storage", flush |-> c.flush, err |-> "none"]
                                ELSE c
          IN
          /\ r = "TransactionConflict" => txn.attempts < MaxAttempts
          /\ c.kind # "Ok" => storage_ok
          /\ IF sled_result.kind = "Conflict"
                THEN /\ txn' = [txn EXCEPT !.attempts = @ + 1, !.overlay = <<>>,
                                           !.writes = 0, !.closure_result = r]
                     /\ tree' = tree
                ELSE /\ txn' = [txn EXCEPT !.pc = "returned", !.overlay = <<>>,
                                           !.closure_result = r,
                                           !.flushed = sled_result.flush,
                                           !.result = txn_result(sled_result)]
                     /\ tree' = IF sled_result.kind = "Ok"
                                   THEN apply_writes(tree, txn.overlay)
                                   ELSE tree
    /\ UNCHANGED tree_sync
    /\ UNCHANGED notTxn

TxnNext ==
    \/ TxnCall
    \/ ClosureWrites
    \/ ClosureReturns

SpecTxn == TxnInit /\ [][TxnNext]_vars

\* C5 as stated: when the closure returns TransactionConflict, txn does not
\* run it again; it returns and the caller receives TransactionConflict.
C5_ConflictReturnedToCaller ==
    txn.closure_result = "TransactionConflict" =>
        /\ txn.pc = "returned"
        /\ txn.result = "TransactionConflict"
        /\ txn.attempts = 1

\* C5 amended: when the closure returns TransactionConflict, txn hands sled a
\* Conflict: the writes of that attempt are dropped, nothing is committed or
\* flushed, the closure is run again inside the same txn call, and txn never
\* returns TransactionConflict to its caller.
C5_ConflictIsRetriedInside ==
    /\ txn.result # "TransactionConflict"
    /\ txn.closure_result = "TransactionConflict" =>
          /\ txn.pc = "closure"
          /\ txn.attempts > 1
          /\ tree = txn.before
          /\ ~txn.flushed
    /\ (txn.pc = "closure" /\ txn.attempts > 1) => txn.writes = Len(txn.overlay)

\* C5 witness: the closure wrote, returned TransactionConflict, and is running
\* again in the same call with its earlier write dropped.
C5_Witness ==
    /\ txn.pc = "closure"
    /\ txn.closure_result = "TransactionConflict"
    /\ txn.attempts = 2
    /\ txn.overlay = <<>>

\* C6: when the closure returns an application-level error (BytesError,
\* SledError or SnapshotError), none of its writes are in the tree afterwards,
\* no flush was performed, and txn returns that same error.
C6_AbortIsAtomic ==
    (txn.pc = "returned" /\ txn.closure_result \in AppErrors) =>
        /\ tree = txn.before
        /\ ~txn.flushed
        /\ txn.result = txn.closure_result

\* C6 witness: a closure that staged writes in a syncing transaction returned
\* SnapshotError.
C6_Witness ==
    /\ txn.pc = "returned"
    /\ txn.closure_result = "SnapshotError"
    /\ txn.writes > 0
    /\ txn.sync
    /\ txn.result = "SnapshotError"

(***************************************************************************)
(* MetaNode::join_cluster: join an existing cluster through the --join      *)
(* addresses.                                                               *)
(***************************************************************************)
Addrs == 1 .. NumAddrs

\* The --join lists: any addresses, repeated or the node's own included.
JoinLists == UNION {[1 .. n -> Addrs] : n \in 0 .. MaxJoin}

\* What one pass of the loop can meet once the address is not the node's own:
\* no channel, a failed RPC, a reply with empty data, a reply with data.
JoinOutcomes == {"ConnectFail", "RpcError", "EmptyData", "Data"}

\* Mutant: only an empty join list skips the joining.
skip_join_only_when_empty(c, opened) == c.join = <<>>

\* The two early returns: "--join is empty" and "already initialized".
skip_join(c, opened) == c.join = <<>> \/ opened

\* Mutant: the node's own address is not recognised.
via_self_never(addr, c) == FALSE

\* addr == &conf.raft_api_advertise_host_string()
via_self(addr, c) == addr = c.advertise

\* AnyError::error(format!(..)): an error made of a message alone; the message
\* names the address list.
AnyError_error(kind, addrs) == [kind |-> kind, addrs |-> addrs, source |-> None]

\* The return after the loop: Err(MetaManagementError::Join(..)) or Leave(..).
all_failed(kind, addrs) ==
    [result |-> kind \o "Error", error |-> Some(AnyError_error(kind, addrs))]

JoinInit ==
    /\ conf \in [join : JoinLists, advertise : Addrs]
    /\ is_opened \in BOOLEAN
    /\ join = NoJoin
    /\ ForwardIdle
    /\ CascadesIdle
    /\ TxnIdle
    /\ SnapshotIdle
    /\ StoreIdle
    /\ ReplayIdle
    /\ LeaderIdle
    /\ StopIdle
    /\ RewriteIdle
    /\ MarkIdle
    /\ ElectionIdle
    /\ UafIdle
    /\ RangeIdle
    /\ LeaveIdle
    /\ ScalarIdle
    /\ AnyIdle
    /\ BootIdle
    /\ OverflowCastIdle
    /\ AddNodeIdle
    /\ SuperTypeIdle
    /\ PartitionsIdle
    /\ PipelineIdle
    /\ RewriterIdle

\* join_cluster is called: the early returns, or the loop starts.
JoinClusterCall ==
    /\ join.pc = "idle"
    /\ join' = IF skip_join(conf, is_opened)
                  THEN [join EXCEPT !.pc = "returned", !.result = "Ok"]
                  ELSE [join EXCEPT !.pc = "loop"]
    /\ UNCHANGED <<conf, is_opened>>
    /\ UNCHANGED notJoin

\* One pass of "for addr in addrs", and the return that follows it when it
\* was the successful or the last one.
JoinLoopPass ==
    /\ join.pc = "loop"
    /\ \E outcome \in JoinOutcomes :
          LET i == join.next
              addr == conf.join[i]
              self == via_self(addr, conf)
              sent == ~self /\ outcome # "ConnectFail"
              data == sent /\ outcome = "Data"
              last == i = Len(conf.join)
          IN
          /\ self => outcome = "ConnectFail"    \* "continue": nothing is tried
          /\ join' = [join EXCEPT
                !.next = i + 1,
                !.contacted = IF self THEN @ ELSE Append(@, i),
                !.rpcs = IF sent THEN Append(@, i) ELSE @,
                !.data_from = IF data /\ @ = None THEN Some(i) ELSE @,
                !.pc = IF data \/ last THEN "returned" ELSE "loop",
                !.last_failure = IF self \/ data THEN @
                                 ELSE Some([addr |-> i, failure |-> outcome]),
                !.result = IF data THEN "Ok"
                           ELSE IF last THEN all_failed("Join", conf.join).result ELSE @,
                !.error = IF ~data /\ last THEN all_failed("Join", conf.join).error ELSE @]
    /\ UNCHANGED <<conf, is_opened>>
    /\ UNCHANGED notJoin

JoinNext ==
    \/ JoinClusterCall
    \/ JoinLoopPass

SpecJoin == JoinInit /\ [][JoinNext]_vars

\* C7: join_cluster on a node whose store was opened (or with an empty join
\* list) returns Ok without contacting any address.
C7_OpenedNodeDoesNotJoin ==
    (join.pc # "idle" /\ (is_opened \/ conf.join = <<>>)) =>
        /\ join.pc = "returned"
        /\ join.result = "Ok"
        /\ join.contacted = <<>>
        /\ join.rpcs = <<>>

\* C7 witness: join_cluster returned on an opened node whose join list names
\* another node.
C7_Witness ==
    /\ join.pc = "returned"
    /\ is_opened
    /\ \E i \in DOMAIN conf.join : conf.join[i] # conf.advertise

\* C8: join_cluster contacts the entries of the join list in list order, each
\* at most once, never the node's own advertise address; after the first reply
\* with non-empty data it sends no further join RPC and returns Ok.
C8_JoinInListOrder ==
    /\ \A a, b \in DOMAIN join.contacted : a < b => join.contacted[a] < join.contacted[b]
    /\ \A a, b \in DOMAIN join.rpcs : a < b => join.rpcs[a] < join.rpcs[b]
    /\ \A a \in DOMAIN join.contacted :
          /\ join.contacted[a] \in DOMAIN conf.join
          /\ conf.join[join.contacted[a]] # conf.advertise
    /\ \A a \in DOMAIN join.rpcs : \E b \in DOMAIN join.contacted : join.contacted[b] = join.rpcs[a]
    /\ \A i \in join.data_from :
          /\ join.pc = "returned"
          /\ join.result = "Ok"
          /\ Last(join.rpcs) = i
          /\ Last(join.contacted) = i

\* C8 witness: the list held the node's own address and another one; the other
\* one was contacted and replied with data.
C8_Witness ==
    /\ join.pc = "returned"
    /\ join.result = "Ok"
    /\ join.data_from # None
    /\ \E i \in DOMAIN conf.join : conf.join[i] = conf.advertise /\ \A j \in join.data_from : i < j

(***************************************************************************)
(* MetaNode::leave_cluster: leave the cluster through the --leave-via      *)
(* addresses.                                                              *)
(***************************************************************************)
NoLeave ==
    [pc |-> "idle", next |-> 1, result |-> "none", last_failure |-> None, error |-> None]

\* The two early returns: "--leave-via is empty" and "--leave-id is None".
skip_leave(c) == c.leave_via = <<>> \/ c.leave_id = None

LeaveInit ==
    /\ leave_conf \in [leave_via : JoinLists, leave_id : OptionOf(Addrs)]
    /\ leave = NoLeave
    /\ ForwardIdle
    /\ CascadesIdle
    /\ TxnIdle
    /\ JoinIdle
    /\ SnapshotIdle
    /\ StoreIdle
    /\ ReplayIdle
    /\ LeaderIdle
    /\ StopIdle
    /\ RewriteIdle
    /\ MarkIdle
    /\ ElectionIdle
    /\ UafIdle
    /\ RangeIdle
    /\ ScalarIdle
    /\ AnyIdle
    /\ BootIdle
    /\ OverflowCastIdle
    /\ AddNodeIdle
    /\ SuperTypeIdle
    /\ PartitionsIdle
    /\ PipelineIdle
    /\ RewriterIdle

\* leave_cluster is called: the early returns, or the loop starts.
LeaveClusterCall ==
    /\ leave.pc = "idle"
    /\ leave' = IF skip_leave(leave_conf)
                   THEN [leave EXCEPT !.pc = "returned", !.result = "Ok(false)"]
                   ELSE [leave EXCEPT !.pc = "loop"]
    /\ UNCHANGED leave_conf
    /\ UNCHANGED notLeave

\* One pass of "for addr in addrs", and the return that follows it when it
\* was the successful or the last one.
LeaveLoopPass ==
    /\ leave.pc = "loop"
    /\ \E outcome \in JoinOutcomes :
          LET i == leave.next
              data == outcome = "Data"
              last == i = Len(leave_conf.leave_via)
          IN
          leave' = [leave EXCEPT
                !.next = i + 1,
                !.pc = IF data \/ last THEN "returned" ELSE "loop",
                !.last_failure = IF data THEN @ ELSE Some([addr |-> i, failure |-> outcome]),
                !.result = IF data THEN "Ok(true)"
                           ELSE IF last THEN all_failed("Leave", leave_conf.leave_via).result
                           ELSE @,
                !.error = IF ~data /\ last THEN all_failed("Leave", leave_conf.leave_via).error
                          ELSE @]
    /\ UNCHANGED leave_conf
    /\ UNCHANGED notLeave

LeaveNext ==
    \/ LeaveClusterCall
    \/ LeaveLoopPass

\* A process runs join_cluster or leave_cluster.
JoinLeaveInit == JoinInit \/ LeaveInit

JoinLeaveNext ==
    \/ conf # <<>> /\ JoinNext
    \/ leave_conf # <<>> /\ LeaveNext

SpecJoinLeave == JoinLeaveInit /\ [][JoinLeaveNext]_vars

\* join_cluster or leave_cluster went through its whole list without a reply
\* that carries data.
JoinAllFailed == conf # <<>> /\ join.pc = "returned" /\ join.last_failure # None /\ join.data_from = None
LeaveAllFailed == leave_conf # <<>> /\ leave.pc = "returned" /\ leave.result \notin {"Ok(false)", "Ok(true)"}

\* C23: when every candidate address fails, join_cluster returns
\* MetaManagementError::Join and leave_cluster MetaManagementError::Leave, and
\* the returned error carries the last failure met.
C23_LastFailureSurfaced ==
    /\ JoinAllFailed =>
          /\ join.result = "JoinError"
          /\ \E e \in join.error : e.kind = "Join" /\ e.source = join.last_failure
    /\ LeaveAllFailed =>
          /\ leave.result = "LeaveError"
          /\ \E e \in leave.error : e.kind = "Leave" /\ e.source = leave.last_failure

(***************************************************************************)
(* RaftStoreBare::install_snapshot: replace the state machine by the one   *)
(* a snapshot holds. The persisted state-machine id is a pair; its two     *)
(* components differ while an install is under way.                        *)
(***************************************************************************)
SmIds == 0 .. MaxSmId

\* The content of a state machine: the key-values, the last applied log id
\* and the last membership.
EmptySm == [kvs |-> [k \in Keys |-> None], last_applied |-> None, membership |-> None]

SmContents ==
    [kvs : [Keys -> OptionOf(Vals)],
     last_applied : OptionOf({<<1, 9>>}),
     membership : OptionOf({{4, 5, 6}})]

\* What build_snapshot serialises: a state machine that has applied entries.
Snapshots == {c \in SmContents : c.last_applied # None /\ c.membership # None}

Logs == {<<>>, <<"entry">>}

RejectedInstall == "another snapshot install is not finished yet"

\* Mutant: an unfinished install is never seen.
install_unfinished_never(id) == FALSE

\* The two components of the state-machine id differ.
install_unfinished(id) == id[1] # id[2]

\* Mutant: the snapshot is written into the state machine in use.
sm_while_installing_in_place(cur, new) == new

\* The state machine in use while the install fills the new one.
sm_while_installing(cur, new) == cur

\* Mutant: the id is left as the install wrote it at its start.
finished_id_unchanged(id) == id

\* The id once the new state machine is in use: both components name it.
finished_id(id) == <<id[2], id[2]>>

\* build_snapshot: the key-values that are present, in key order, with the
\* last applied log id and the membership.
RECURSIVE present_kvs(_, _)
present_kvs(kvs, k) ==
    IF k > NumKeys THEN <<>>
    ELSE (IF kvs[k] = None THEN <<>> ELSE <<[key |-> k, value |-> Unwrap(kvs[k])]>>)
         \o present_kvs(kvs, k + 1)

build_snapshot(sm) ==
    [kvs |-> present_kvs(sm.kvs, 1), last_applied |-> sm.last_applied,
     membership |-> sm.membership]

SnapshotInit ==
    /\ state_machine_id \in {<<a, a>> : a \in SmIds}
    /\ state_machine \in {EmptySm} \cup Snapshots
    /\ log \in Logs
    /\ new_sm = EmptySm
    /\ install = NoInstall
    /\ ForwardIdle
    /\ CascadesIdle
    /\ TxnIdle
    /\ JoinIdle
    /\ StoreIdle
    /\ ReplayIdle
    /\ LeaderIdle
    /\ StopIdle
    /\ RewriteIdle
    /\ MarkIdle
    /\ ElectionIdle
    /\ UafIdle
    /\ RangeIdle
    /\ LeaveIdle
    /\ ScalarIdle
    /\ AnyIdle
    /\ BootIdle
    /\ OverflowCastIdle
    /\ AddNodeIdle
    /\ SuperTypeIdle
    /\ PartitionsIdle
    /\ PipelineIdle
    /\ RewriterIdle

\* raft_state.write_state_machine_id, as the store test calls it between
\* installs.
WriteStateMachineId ==
    /\ install.pc # "installing"
    /\ \E a, b \in SmIds :
          /\ <<a, b>> # state_machine_id
          /\ state_machine_id' = <<a, b>>
    /\ install' = NoInstall
    /\ UNCHANGED <<state_machine, log, new_sm>>
    /\ UNCHANGED notSnapshot

\* install_snapshot is called: rejected while another install is unfinished,
\* else the id records the install and a new, empty state machine is opened.
InstallSnapshotCall ==
    /\ install.pc # "installing"
    /\ install_unfinished(state_machine_id) \/ state_machine_id[1] < MaxSmId
    /\ \E data \in Snapshots :
          LET call == [NoInstall EXCEPT !.data = data, !.id_at_call = state_machine_id,
                                        !.before = <<state_machine, log>>]
          IN
          IF install_unfinished(state_machine_id)
             THEN /\ install' = [call EXCEPT !.pc = "returned", !.data = <<>>,
                                                 !.result = RejectedInstall]
                  /\ UNCHANGED <<state_machine_id, new_sm>>
             ELSE /\ install' = [call EXCEPT !.pc = "installing"]
                  /\ state_machine_id' = <<state_machine_id[1], state_machine_id[1] + 1>>
                  /\ new_sm' = EmptySm
    /\ UNCHANGED <<state_machine, log>>
    /\ UNCHANGED notSnapshot

\* The install writes the next part of the snapshot into the new state
\* machine: the key-values one by one, then last_applied and the membership.
InstallCopy ==
    /\ install.pc = "installing"
    /\ install.copied <= NumKeys
    /\ LET k == install.copied + 1
           filled == IF k <= NumKeys
                        THEN [new_sm EXCEPT !.kvs[k] = install.data.kvs[k]]
                        ELSE [new_sm EXCEPT !.last_applied = install.data.last_applied,
                                            !.membership = install.data.membership]
       IN
       /\ new_sm' = filled
       /\ state_machine' = sm_while_installing(state_machine, filled)
    /\ install' = [install EXCEPT !.copied = @ + 1]
    /\ UNCHANGED <<state_machine_id, log>>
    /\ UNCHANGED notSnapshot

\* The install fails or is aborted before it has switched state machines.
InstallFails ==
    /\ install.pc = "installing"
    /\ \E e \in {"SnapshotError", "aborted"} :
          install' = [install EXCEPT !.pc = "returned", !.data = <<>>, !.copied = 0,
                                     !.result = e]
    /\ UNCHANGED <<state_machine_id, state_machine, log, new_sm>>
    /\ UNCHANGED notSnapshot

\* Everything is written: the new state machine replaces the one in use and
\* the id records that the install is finished.
InstallFinish ==
    /\ install.pc = "installing"
    /\ install.copied = NumKeys + 1
    /\ state_machine' = new_sm
    /\ state_machine_id' = finished_id(state_machine_id)
    /\ install' = [install EXCEPT !.pc = "returned", !.copied = 0, !.result = "Ok"]
    /\ UNCHANGED <<log, new_sm>>
    /\ UNCHANGED notSnapshot

SnapshotNext ==
    \/ WriteStateMachineId
    \/ InstallSnapshotCall
    \/ InstallCopy
    \/ InstallFails
    \/ InstallFinish

SpecSnapshot == SnapshotInit /\ [][SnapshotNext]_vars

\* C9: a snapshot install that fails or is aborted at any step leaves the
\* state machine content, the last-applied log id, the membership and the log
\* exactly as they were before the install started.
C9_FailedInstallChangesNothing ==
    (install.pc = "installing" \/ (install.pc = "returned" /\ install.result # "Ok")) =>
        /\ state_machine.kvs = install.before[1].kvs
        /\ state_machine.last_applied = install.before[1].last_applied
        /\ state_machine.membership = install.before[1].membership
        /\ log = install.before[2]

\* C9 witness: an install failed after it had written key-values and the
\* membership that differ from those of the state machine in use.
C9_Witness ==
    /\ install.pc = "returned"
    /\ install.result = "SnapshotError"
    /\ new_sm.kvs # EmptySm.kvs
    /\ new_sm.kvs # state_machine.kvs
    /\ new_sm.membership # state_machine.membership

\* C10: install_snapshot is rejected with "another snapshot install is not
\* finished yet" whenever the two components of the persisted state-machine id
\* differ, and is accepted when they are equal.
C10_UnfinishedInstallRejects ==
    install.pc # "idle" =>
        /\ (install.id_at_call[1] # install.id_at_call[2]) <=>
              (install.pc = "returned" /\ install.result = RejectedInstall)
        /\ (install.id_at_call[1] = install.id_at_call[2]) =>
              (install.pc = "installing" \/ install.result \in {"Ok", "SnapshotError", "aborted"})

\* C10 witness: an install was rejected with the id (1, 2).
C10_Witness ==
    /\ install.pc = "returned"
    /\ install.id_at_call = <<1, 2>>
    /\ install.result = RejectedInstall

Terms == 1 .. MaxTerm
LogIndexes == 1 .. MaxLogLen

HardStates == [current_term : Terms, voted_for : OptionOf(Nodes)]

NoDisk == [exists |-> FALSE, id |-> None, hard_state |-> None, log |-> <<>>, last_applied |-> None]

NoSto == [open |-> FALSE, id |-> None, config_id |-> None, is_opened |-> FALSE, just_opened |-> FALSE]

\* Mutant: the id of the config is taken on every open.
opened_id_from_config(disk_id, config_id) == Some(config_id)

\* The id of a store that is opened is the one it was created with:
\* "config.id only used for the first time".
opened_id(disk_id, config_id) == disk_id

\* What a caller can read from an open store.
StoreView ==
    [id |-> sto.id, hard_state |-> disk.hard_state, log |-> disk.log,
     last_applied |-> disk.last_applied]

StoreInit ==
    /\ disk = NoDisk
    /\ sto = NoSto
    /\ closed = <<>>
    /\ ForwardIdle
    /\ CascadesIdle
    /\ TxnIdle
    /\ JoinIdle
    /\ SnapshotIdle
    /\ ReplayIdle
    /\ LeaderIdle
    /\ StopIdle
    /\ RewriteIdle
    /\ MarkIdle
    /\ ElectionIdle
    /\ UafIdle
    /\ RangeIdle
    /\ LeaveIdle
    /\ ScalarIdle
    /\ AnyIdle
    /\ BootIdle
    /\ OverflowCastIdle
    /\ AddNodeIdle
    /\ SuperTypeIdle
    /\ PartitionsIdle
    /\ PipelineIdle
    /\ RewriterIdle

\* RaftStoreBare::open_create(config, open, create): an existing store is
\* opened when open is set, a missing one created when create is set; any
\* other combination is an error and gives no store.
OpenCreate ==
    /\ ~sto.open
    /\ \E config_id \in Nodes, open \in BOOLEAN, create \in BOOLEAN :
          /\ (disk.exists /\ open) \/ (~disk.exists /\ create)
          /\ IF disk.exists
                THEN /\ sto' = [open |-> TRUE, id |-> opened_id(disk.id, config_id),
                                config_id |-> Some(config_id), is_opened |-> TRUE,
                                just_opened |-> TRUE]
                     /\ disk' = disk
                ELSE /\ sto' = [open |-> TRUE, id |-> Some(config_id),
                                config_id |-> Some(config_id), is_opened |-> FALSE,
                                just_opened |-> TRUE]
                     /\ disk' = [NoDisk EXCEPT !.exists = TRUE, !.id = Some(config_id)]
    /\ UNCHANGED closed
    /\ UNCHANGED notStore

\* save_hard_state
SaveHardState ==
    /\ sto.open
    /\ \E hs \in HardStates : disk' = [disk EXCEPT !.hard_state = Some(hs)]
    /\ sto' = [sto EXCEPT !.just_opened = FALSE]
    /\ closed' = <<>>
    /\ UNCHANGED notStore

\* append_to_log: one entry at the next index.
AppendToLog ==
    /\ sto.open
    /\ Len(disk.log) < MaxLogLen
    /\ \E term \in Terms :
          disk' = [disk EXCEPT !.log = Append(@, <<term, Len(@) + 1>>)]
    /\ sto' = [sto EXCEPT !.just_opened = FALSE]
    /\ closed' = <<>>
    /\ UNCHANGED notStore

\* apply_to_state_machine: the entry's log id becomes the last applied one.
ApplyToStateMachine ==
    /\ sto.open
    /\ \E term \in Terms, index \in LogIndexes :
          /\ \A la \in disk.last_applied : la[2] < index
          /\ disk' = [disk EXCEPT !.last_applied = Some(<<term, index>>)]
    /\ sto' = [sto EXCEPT !.just_opened = FALSE]
    /\ closed' = <<>>
    /\ UNCHANGED notStore

\* The store is dropped: the process stops or the handle goes out of scope.
CloseStore ==
    /\ sto.open
    /\ closed' = StoreView
    /\ sto' = NoSto
    /\ UNCHANGED disk
    /\ UNCHANGED notStore

StoreNext ==
    \/ OpenCreate
    \/ SaveHardState
    \/ AppendToLog
    \/ ApplyToStateMachine
    \/ CloseStore

SpecStore == StoreInit /\ [][StoreNext]_vars

NoBootDisk == [exists |-> FALSE, id |-> None, init_calls |-> 0, initialized |-> FALSE]

NoMetaNode ==
    [running |-> FALSE, result |-> "none", node_id |-> None, is_opened |-> FALSE,
     config_id |-> None, initialize_cluster |-> FALSE, did_init |-> FALSE]

\* Mutant: the id of the config is taken at every start.
self_node_id_of_config(sto_is_opened, sto_id, config_id) == config_id

\* "let self_node_id = if sto.is_opened() { sto.id } else { config.id }"
self_node_id(sto_is_opened, sto_id, config_id) == IF sto_is_opened THEN sto_id ELSE config_id

\* Mutant: the cluster is initialized whenever a node is passed.
calls_init_cluster_when_passed(sto_is_opened, initialize_cluster) == initialize_cluster

\* "if mn.is_opened() { return Ok(mn) }; if let Some(node) = initialize_cluster
\* { mn.init_cluster(node).await? }"
calls_init_cluster(sto_is_opened, initialize_cluster) == ~sto_is_opened /\ initialize_cluster

BootInit ==
    /\ boot_disk = NoBootDisk
    /\ boot_mn = NoMetaNode
    /\ boot_starts = 0
    /\ ForwardIdle
    /\ CascadesIdle
    /\ TxnIdle
    /\ JoinIdle
    /\ SnapshotIdle
    /\ StoreIdle
    /\ ReplayIdle
    /\ LeaderIdle
    /\ StopIdle
    /\ RewriteIdle
    /\ MarkIdle
    /\ ElectionIdle
    /\ UafIdle
    /\ RangeIdle
    /\ LeaveIdle
    /\ ScalarIdle
    /\ AnyIdle
    /\ OverflowCastIdle
    /\ AddNodeIdle
    /\ SuperTypeIdle
    /\ PartitionsIdle
    /\ PipelineIdle
    /\ RewriterIdle

\* open_create_boot(config, open, create, initialize_cluster), with
\* RaftStoreBare::open_create and init_cluster.
OpenCreateBoot ==
    /\ ~boot_mn.running
    /\ boot_starts < MaxStarts
    /\ boot_starts' = boot_starts + 1
    /\ \E config_id \in Nodes, open \in BOOLEAN, create \in BOOLEAN,
          initialize_cluster \in BOOLEAN, init_res \in {"Ok", "Err"} :
          LET found == boot_disk.exists
              can == (found /\ open) \/ (~found /\ create)
              sto_is_opened == found
              sto_id == IF found THEN Unwrap(boot_disk.id) ELSE config_id
              node_id == self_node_id(sto_is_opened, sto_id, config_id)
              does_init == calls_init_cluster(sto_is_opened, initialize_cluster)
              call == [NoMetaNode EXCEPT !.config_id = Some(config_id),
                                         !.initialize_cluster = initialize_cluster]
          IN IF ~can
                THEN /\ boot_mn' = [call EXCEPT !.result = "Err"]
                     /\ UNCHANGED boot_disk
                ELSE /\ boot_disk' =
                          [exists |-> TRUE,
                           id |-> Some(sto_id),
                           init_calls |-> boot_disk.init_calls + (IF does_init THEN 1 ELSE 0),
                           initialized |-> boot_disk.initialized
                                             \/ (does_init /\ init_res = "Ok")]
                     /\ boot_mn' =
                          [call EXCEPT !.running = ~(does_init /\ init_res = "Err"),
                                       !.result = IF does_init THEN init_res ELSE "Ok",
                                       !.node_id = Some(node_id),
                                       !.is_opened = sto_is_opened,
                                       !.did_init = does_init]
    /\ UNCHANGED notBoot

\* The node stops; the store directory stays.
StopMetaNode ==
    /\ boot_mn.running
    /\ boot_mn' = NoMetaNode
    /\ UNCHANGED <<boot_disk, boot_starts>>
    /\ UNCHANGED notBoot

BootNext ==
    \/ OpenCreateBoot
    \/ StopMetaNode

SpecBoot == BootInit /\ [][BootNext]_vars

\* C29: open_create_boot never calls init_cluster on a store opened from
\* existing state, also when an initialize_cluster node is passed, so over any
\* number of starts of the node the cluster is initialized at most once; on an
\* opened store the node id is the one of the store, not the one of the
\* configuration.
C29_InitClusterAtMostOnce ==
    /\ boot_disk.init_calls <= 1
    /\ boot_mn.is_opened =>
          /\ ~boot_mn.did_init
          /\ boot_mn.node_id = boot_disk.id
    /\ boot_mn.did_init => boot_disk.init_calls = 1 /\ ~boot_mn.is_opened

\* C29 witness: at its last start the node opened a store whose cluster had
\* been initialized at an earlier one, under a configuration with another id
\* and with an initialize_cluster node passed.
C29_Witness ==
    /\ boot_starts = MaxStarts
    /\ boot_mn.running
    /\ boot_mn.is_opened
    /\ boot_mn.initialize_cluster
    /\ boot_mn.config_id # boot_mn.node_id
    /\ boot_disk.initialized
    /\ boot_disk.init_calls = 1

(***************************************************************************)
(* StateMachine::apply: committed entries applied in log order on two      *)
(* state machines, the second one possibly restored from a snapshot of the *)
(* first.                                                                  *)
(***************************************************************************)
\* The payloads of a log entry: nothing, a write of a key, a delete of a key.
Payloads ==
    {[cmd |-> "Blank", key |-> 1, value |-> 1]}
    \cup {[cmd |-> "Upsert", key |-> k, value |-> v] : k \in Keys, v \in Vals}
    \cup {[cmd |-> "Delete", key |-> k, value |-> 1] : k \in Keys}

\* A state machine that has applied nothing.
NewSm == [kvs |-> [k \in Keys |-> None], seq |-> 0, last_applied |-> None]

\* The index of the last applied entry, 0 when there is none.
applied_index(sm) == IF sm.last_applied = None THEN 0 ELSE Unwrap(sm.last_applied)[2]

\* StateMachine::apply: a write takes the next sequence number and stores the
\* value with it, a delete removes the key; the entry's log id becomes the
\* last applied one.
apply(sm, ent) ==
    LET p == ent.payload
        written == IF p.cmd = "Upsert"
                      THEN [sm EXCEPT !.seq = @ + 1,
                                      !.kvs[p.key] = Some([seq |-> sm.seq + 1, value |-> p.value])]
                   ELSE IF p.cmd = "Delete"
                      THEN [sm EXCEPT !.kvs[p.key] = None]
                   ELSE sm
    IN [written EXCEPT !.last_applied = Some(ent.log_id)]

\* Mutant: the sequence counter is left out of the snapshot.
snapshot_seq_dropped(sm) == 0

\* The sequence counter is a key of the state machine and is dumped with it.
snapshot_seq(sm) == sm.seq

\* The snapshot of a state machine: every key that is present with its
\* sequence number and value, in key order, the sequence counter and the last
\* applied log id.
RECURSIVE dump_kvs(_, _)
dump_kvs(kvs, k) ==
    IF k > NumKeys THEN <<>>
    ELSE (IF kvs[k] = None THEN <<>> ELSE <<[key |-> k, seqv |-> Unwrap(kvs[k])]>>)
         \o dump_kvs(kvs, k + 1)

dump(sm) ==
    [kvs |-> dump_kvs(sm.kvs, 1), seq |-> snapshot_seq(sm), last_applied |-> sm.last_applied]

\* The state machine a snapshot restores.
restore(snapshot) ==
    [kvs |-> [k \in Keys |->
                IF \E i \in DOMAIN snapshot.kvs : snapshot.kvs[i].key = k
                   THEN Some((CHOOSE e \in {snapshot.kvs[i] : i \in DOMAIN snapshot.kvs} : e.key = k).seqv)
                   ELSE None],
     seq |-> snapshot.seq,
     last_applied |-> snapshot.last_applied]

\* The state machine that has applied the first n entries of a log.
RECURSIVE Replay(_, _)
Replay(entries, n) == IF n = 0 THEN NewSm ELSE apply(Replay(entries, n - 1), entries[n])

ReplayInit ==
    /\ committed = <<>>
    /\ sm_a = NewSm
    /\ sm_b = NewSm
    /\ snap = dump(NewSm)
    /\ restored = None
    /\ ForwardIdle
    /\ CascadesIdle
    /\ TxnIdle
    /\ JoinIdle
    /\ SnapshotIdle
    /\ StoreIdle
    /\ LeaderIdle
    /\ StopIdle
    /\ RewriteIdle
    /\ MarkIdle
    /\ ElectionIdle
    /\ UafIdle
    /\ RangeIdle
    /\ LeaveIdle
    /\ ScalarIdle
    /\ AnyIdle
    /\ BootIdle
    /\ OverflowCastIdle
    /\ AddNodeIdle
    /\ SuperTypeIdle
    /\ PartitionsIdle
    /\ PipelineIdle
    /\ RewriterIdle

\* An entry is committed at the next index and the first machine applies it.
CommitAndApply ==
    /\ Len(committed) < MaxLogLen
    /\ \E p \in Payloads :
          LET ent == [log_id |-> <<1, Len(committed) + 1>>, payload |-> p]
          IN /\ committed' = Append(committed, ent)
             /\ sm_a' = apply(sm_a, ent)
    /\ UNCHANGED <<sm_b, snap, restored>>
    /\ UNCHANGED notReplay

\* The second machine applies the entry that follows its last applied one.
ApplyNext ==
    /\ applied_index(sm_b) < Len(committed)
    /\ sm_b' = apply(sm_b, committed[applied_index(sm_b) + 1])
    /\ UNCHANGED <<committed, sm_a, snap, restored>>
    /\ UNCHANGED notReplay

\* build_snapshot on the first machine.
BuildSnapshot ==
    /\ snap # dump(sm_a)
    /\ snap' = dump(sm_a)
    /\ UNCHANGED <<committed, sm_a, sm_b, restored>>
    /\ UNCHANGED notReplay

\* The second machine is replaced by the one the snapshot holds.
RestoreFromSnapshot ==
    /\ sm_b' = restore(snap)
    /\ restored' = Some(applied_index(restore(snap)))
    /\ UNCHANGED <<committed, sm_a, snap>>
    /\ UNCHANGED notReplay

ReplayNext ==
    \/ CommitAndApply
    \/ ApplyNext
    \/ BuildSnapshot
    \/ RestoreFromSnapshot

SpecReplay == ReplayInit /\ [][ReplayNext]_vars

NoGetLeader == [pc |-> "idle", seen |-> 0, waits |-> 0, read |-> None, closed_seen |-> FALSE,
                result |-> None]

\* Mutant: the cloned receiver is not looked at before waiting.
recheck_skipped(value) == None

\* "if let Some(l) = rx.borrow().current_leader": the re-check of the cloned rx.
recheck(value) == value

GetLeaderRunning == gl.pc \in {"fast", "clone", "recheck", "changed"}

LeaderInit ==
    /\ metrics \in [value : OptionOf(Nodes), version : {0}, closed : {FALSE}]
    /\ gl = NoGetLeader
    /\ ForwardIdle
    /\ CascadesIdle
    /\ TxnIdle
    /\ JoinIdle
    /\ SnapshotIdle
    /\ StoreIdle
    /\ ReplayIdle
    /\ StopIdle
    /\ RewriteIdle
    /\ MarkIdle
    /\ ElectionIdle
    /\ UafIdle
    /\ RangeIdle
    /\ LeaveIdle
    /\ ScalarIdle
    /\ AnyIdle
    /\ BootIdle
    /\ OverflowCastIdle
    /\ AddNodeIdle
    /\ SuperTypeIdle
    /\ PartitionsIdle
    /\ PipelineIdle
    /\ RewriterIdle

\* The raft core publishes new metrics: the leader changes, appears or goes.
PublishMetrics ==
    /\ ~metrics.closed
    /\ metrics.version < MaxVersion
    /\ \E l \in OptionOf(Nodes) :
          metrics' = [metrics EXCEPT !.value = l, !.version = @ + 1]
    /\ UNCHANGED gl
    /\ UNCHANGED notLeader

\* raft shuts down: the metrics sender is dropped.
CloseMetrics ==
    /\ ~metrics.closed
    /\ metrics' = [metrics EXCEPT !.closed = TRUE]
    /\ UNCHANGED gl
    /\ UNCHANGED notLeader

\* get_leader is called.
GetLeaderCall ==
    /\ gl.pc \in {"idle", "returned"}
    /\ gl' = [NoGetLeader EXCEPT !.pc = "fast"]
    /\ UNCHANGED metrics
    /\ UNCHANGED notLeader

\* fast path: self.raft.metrics().borrow().current_leader
GetLeaderFastPath ==
    /\ gl.pc = "fast"
    /\ gl' = IF metrics.value # None
                THEN [gl EXCEPT !.pc = "returned", !.read = metrics.value,
                                !.closed_seen = metrics.closed, !.result = metrics.value]
                ELSE [gl EXCEPT !.pc = "clone"]
    /\ UNCHANGED metrics
    /\ UNCHANGED notLeader

\* "let mut rx = self.raft.metrics()": the clone has seen the version its
\* origin has seen, which is any version up to the current one.
GetLeaderClone ==
    /\ gl.pc = "clone"
    /\ \E v \in 0 .. metrics.version : gl' = [gl EXCEPT !.pc = "recheck", !.seen = v]
    /\ UNCHANGED metrics
    /\ UNCHANGED notLeader

\* The head of the loop: return the leader the cloned rx holds, if any.
GetLeaderRecheck ==
    /\ gl.pc = "recheck"
    /\ gl' = IF recheck(metrics.value) # None
                THEN [gl EXCEPT !.pc = "returned", !.read = metrics.value,
                                !.closed_seen = metrics.closed, !.result = metrics.value]
                ELSE [gl EXCEPT !.pc = "changed"]
    /\ UNCHANGED metrics
    /\ UNCHANGED notLeader

\* rx.changed().await: completes with Ok when there is a version the receiver
\* has not seen, with Err when there is none and the sender is gone, and is
\* suspended otherwise.
GetLeaderChanged ==
    /\ gl.pc = "changed"
    /\ gl.seen # metrics.version \/ metrics.closed
    /\ gl' = IF gl.seen # metrics.version
                THEN [gl EXCEPT !.pc = "recheck", !.seen = metrics.version, !.waits = 1]
                ELSE [gl EXCEPT !.pc = "returned", !.read = metrics.value,
                                !.closed_seen = TRUE, !.waits = 1, !.result = Some(0)]
    /\ UNCHANGED metrics
    /\ UNCHANGED notLeader

GetLeaderStep ==
    \/ GetLeaderFastPath
    \/ GetLeaderClone
    \/ GetLeaderRecheck
    \/ GetLeaderChanged

LeaderNext ==
    \/ PublishMetrics
    \/ CloseMetrics
    \/ GetLeaderCall
    \/ GetLeaderFastPath
    \/ GetLeaderClone
    \/ GetLeaderRecheck
    \/ GetLeaderChanged

SpecLeader == LeaderInit /\ [][LeaderNext]_vars

\* The call is scheduled as long as it can take a step.
SpecLeaderFair == SpecLeader /\ WF_vars(GetLeaderStep)

\* C14, the moments of return and of suspension: get_leader returns the leader
\* the metrics name at that moment, or 0 when the channel is closed and names
\* no leader; it is never suspended while the metrics it has not seen name a
\* leader, whenever that leader was published.
C14_ReturnsAndWaits ==
    /\ gl.pc = "returned" =>
          /\ IF gl.read # None THEN gl.result = gl.read
                               ELSE gl.closed_seen /\ gl.result = Some(0)
          /\ gl.read # None \/ gl.closed_seen
    /\ (gl.pc = "changed" /\ metrics.value # None) => gl.seen # metrics.version
    /\ (gl.pc = "changed" /\ gl.seen = metrics.version /\ ~metrics.closed) => metrics.value = None

\* C14: get_leader returns the current leader of the latest metrics when one is
\* known; otherwise it waits and returns only when the metrics name a leader
\* (that leader) or the channel is closed (0); it does not return while the
\* channel is open and no leader is known, and it does not stay waiting once a
\* leader is known or the channel is closed, at whatever moment that happened.
C14_GetLeader ==
    /\ []C14_ReturnsAndWaits
    /\ []<>(~GetLeaderRunning \/ (metrics.value = None /\ ~metrics.closed))

\* C14 witness: the call found no leader on the fast path, waited, and returned
\* the leader that was published afterwards.
C14_Witness ==
    /\ gl.pc = "returned"
    /\ gl.waits = 1
    /\ gl.result # None
    /\ gl.result = metrics.value
    /\ ~metrics.closed

(***************************************************************************)
(* MetaNode::stop: shut raft down, broadcast the stop signal, wait for the *)
(* metrics channel to close, then await every task of join_handles.        *)
(***************************************************************************)
TaskNames == {"monitor", "grpc"}

NoStop == [pc |-> "idle", seen |-> 0, shutdown_res |-> "none", events |-> <<>>,
           joined_tasks |-> 1, awaited |-> 0, result |-> None]

\* Mutant: stop does not wait for the metrics channel.
metrics_wait_skipped(seen, ch) == TRUE

\* rx.changed() gave Err: nothing unseen is left and the sender is dropped.
metrics_closed_seen(seen, ch) == seen = ch.version /\ ch.closed

StopInit ==
    /\ raft_core = "running"
    /\ mchan = [version |-> 0, closed |-> FALSE]
    /\ signal_sent = FALSE
    /\ \E monitor_metrics \in BOOLEAN :
          /\ bg = [t \in TaskNames |->
                     [state |-> IF t = "monitor" /\ ~monitor_metrics THEN "absent" ELSE "running",
                      error |-> FALSE, seen |-> 0]]
          /\ join_handles = IF monitor_metrics THEN <<"monitor", "grpc">> ELSE <<"grpc">>
    /\ stop = NoStop
    /\ ForwardIdle
    /\ CascadesIdle
    /\ TxnIdle
    /\ JoinIdle
    /\ SnapshotIdle
    /\ StoreIdle
    /\ ReplayIdle
    /\ LeaderIdle
    /\ RewriteIdle
    /\ MarkIdle
    /\ ElectionIdle
    /\ UafIdle
    /\ RangeIdle
    /\ LeaveIdle
    /\ ScalarIdle
    /\ AnyIdle
    /\ BootIdle
    /\ OverflowCastIdle
    /\ AddNodeIdle
    /\ SuperTypeIdle
    /\ PartitionsIdle
    /\ PipelineIdle
    /\ RewriterIdle

\* The raft core publishes metrics.
RaftPublishes ==
    /\ raft_core # "ended"
    /\ mchan.version < MaxVersion
    /\ mchan' = [mchan EXCEPT !.version = @ + 1]
    /\ UNCHANGED <<raft_core, signal_sent, bg, join_handles, stop>>
    /\ UNCHANGED notStop

\* The raft core task ends after it was asked to: its metrics sender is dropped.
RaftCoreEnds ==
    /\ raft_core = "shutting_down"
    /\ raft_core' = "ended"
    /\ mchan' = [mchan EXCEPT !.closed = TRUE]
    /\ UNCHANGED <<signal_sent, bg, join_handles, stop>>
    /\ UNCHANGED notStop

\* The metrics monitor takes a change of the metrics channel, sets the gauges
\* and waits for the next one.
MonitorReports ==
    /\ bg["monitor"].state = "running"
    /\ bg["monitor"].seen # mchan.version
    /\ bg' = [bg EXCEPT !["monitor"].seen = mchan.version]
    /\ UNCHANGED <<raft_core, mchan, signal_sent, join_handles, stop>>
    /\ UNCHANGED notStop

\* The metrics monitor leaves its loop when the metrics channel is closed.
MonitorEnds ==
    /\ bg["monitor"].state = "running"
    /\ metrics_closed_seen(bg["monitor"].seen, mchan)
    /\ bg' = [bg EXCEPT !["monitor"].state = "done"]
    /\ UNCHANGED <<raft_core, mchan, signal_sent, join_handles, stop>>
    /\ UNCHANGED notStop

\* The metrics monitor takes a change and ends with the error of get_last_seq.
MonitorFails ==
    /\ bg["monitor"].state = "running"
    /\ bg["monitor"].seen # mchan.version
    /\ bg' = [bg EXCEPT !["monitor"] =
                 [state |-> "done", error |-> TRUE, seen |-> mchan.version]]
    /\ UNCHANGED <<raft_core, mchan, signal_sent, join_handles, stop>>
    /\ UNCHANGED notStop

\* serve_with_shutdown returns once the stop signal is received.
GrpcEnds ==
    /\ bg["grpc"].state = "running"
    /\ signal_sent
    /\ bg' = [bg EXCEPT !["grpc"].state = "done"]
    /\ UNCHANGED <<raft_core, mchan, signal_sent, join_handles, stop>>
    /\ UNCHANGED notStop

\* The gRPC server ends with a serving error.
GrpcFails ==
    /\ bg["grpc"].state = "running"
    /\ bg' = [bg EXCEPT !["grpc"] = [state |-> "done", error |-> TRUE, seen |-> 0]]
    /\ UNCHANGED <<raft_core, mchan, signal_sent, join_handles, stop>>
    /\ UNCHANGED notStop

\* stop is called: it clones the metrics receiver and asks raft to shut down.
StopCall ==
    /\ stop.pc = "idle"
    /\ \E v \in 0 .. mchan.version :
          stop' = [stop EXCEPT !.pc = "shutdown", !.seen = v, !.events = Append(@, "shutdown")]
    /\ raft_core' = IF raft_core = "running" THEN "shutting_down" ELSE raft_core
    /\ UNCHANGED <<mchan, signal_sent, bg, join_handles>>
    /\ UNCHANGED notStop

\* raft.shutdown() returns, with Ok or with an error that is only logged, and
\* the stop signal is broadcast.
StopSignals ==
    /\ stop.pc = "shutdown"
    /\ \E res \in {"Ok", "Err"} :
          stop' = [stop EXCEPT !.pc = "wait_metrics", !.shutdown_res = res,
                               !.events = Append(@, "signal")]
    /\ signal_sent' = TRUE
    /\ UNCHANGED <<raft_core, mchan, bg, join_handles>>
    /\ UNCHANGED notStop

\* One rx.changed().await of the loop that waits for raft to close the
\* metrics tx.
StopWaitsMetrics ==
    /\ stop.pc = "wait_metrics"
    /\ stop.seen # mchan.version \/ mchan.closed
    /\ stop' = IF metrics_closed_seen(stop.seen, mchan)
                  THEN [stop EXCEPT !.pc = IF join_handles = <<>> THEN "returned" ELSE "join",
                                    !.result = IF join_handles = <<>> THEN Some(stop.joined_tasks)
                                               ELSE None]
                  ELSE [stop EXCEPT !.seen = mchan.version]
    /\ UNCHANGED <<raft_core, mchan, signal_sent, bg, join_handles>>
    /\ UNCHANGED notStop

\* "for j in join_handles": the next task is awaited and counted, whatever it
\* ended with; after the last one stop returns the count.
StopJoins ==
    /\ stop.pc = "join"
    /\ LET j == join_handles[stop.awaited + 1]
           last == stop.awaited + 1 = Len(join_handles)
       IN
       /\ bg[j].state = "done"
       /\ stop' = [stop EXCEPT !.awaited = @ + 1,
                               !.joined_tasks = @ + 1,
                               !.pc = IF last THEN "returned" ELSE "join",
                               !.result = IF last THEN Some(stop.joined_tasks + 1) ELSE None]
    /\ UNCHANGED <<raft_core, mchan, signal_sent, bg, join_handles>>
    /\ UNCHANGED notStop

StopNext ==
    \/ RaftPublishes
    \/ RaftCoreEnds
    \/ MonitorReports
    \/ MonitorEnds
    \/ MonitorFails
    \/ GrpcEnds
    \/ GrpcFails
    \/ StopCall
    \/ StopSignals
    \/ StopWaitsMetrics
    \/ StopJoins

SpecStop == StopInit /\ [][StopNext]_vars

\* C15: when stop has returned, raft was asked to shut down before the stop
\* signal was broadcast, the raft metrics channel is closed, every task of
\* join_handles has terminated, and the result is Ok with 1 plus the number of
\* tasks awaited, also when raft shutdown or a task reported an error.
C15_StopDrains ==
    stop.pc = "returned" =>
        /\ stop.events = <<"shutdown", "signal">>
        /\ raft_core # "running"
        /\ mchan.closed
        /\ \A i \in DOMAIN join_handles : bg[join_handles[i]].state = "done"
        /\ stop.awaited = Len(join_handles)
        /\ stop.result = Some(1 + stop.awaited)

\* C15 witness: stop returned 3 after raft shutdown reported an error and the
\* metrics monitor had ended with an error.
C15_Witness ==
    /\ stop.pc = "returned"
    /\ stop.shutdown_res = "Err"
    /\ bg["monitor"].error
    /\ stop.result = Some(3)

\* C30: the metrics monitor task runs for the lifetime of the node: it has
\* ended only when the raft metrics channel was closed at shutdown, having
\* taken every change of the channel.
C30_MonitorRunsUntilClosed ==
    bg["monitor"].state = "done" =>
        /\ mchan.closed
        /\ raft_core = "ended"
        /\ bg["monitor"].seen = mchan.version
        /\ ~bg["monitor"].error

(***************************************************************************)
(* SubqueryRewriter: an uncorrelated EXISTS / NOT EXISTS subquery in a     *)
(* scalar of a Filter, EvalScalar or Aggregate, and the rows the rewritten *)
(* plan returns.                                                           *)
(***************************************************************************)
\* The plan nodes whose scalars rewrite() hands to try_rewrite_subquery.
Operators == {"Filter", "EvalScalar", "Aggregate"}

\* The scalar that holds the subquery: the subquery itself, or an OR, AND or
\* comparison of the subquery with a boolean column p of the outer row, or the
\* function not() of the subquery.
ScalarKinds == {"SubqueryExpr", "OrExpr", "AndExpr", "ComparisonExpr", "FunctionCall"}

ExistsTypes == {"Exists", "NotExists"}

\* The outer rows: the value of the column p of each.
OuterTables == UNION {[1 .. n -> BOOLEAN] : n \in 0 .. MaxRows}

\* The value of a scalar for an outer row, given the value e that stands in
\* the place of the subquery.
eval_scalar(kind, e, p) ==
    CASE kind = "SubqueryExpr" -> e
      [] kind = "OrExpr" -> e \/ p
      [] kind = "AndExpr" -> e /\ p
      [] kind = "ComparisonExpr" -> e = p
      [] kind = "FunctionCall" -> ~e

\* The rows a plan node returns for its input rows: a Filter keeps the rows
\* whose predicate is true, an EvalScalar gives the value for every row, an
\* Aggregate that groups by the scalar gives one row for every distinct value.
RECURSIVE filter_rows(_, _, _)
filter_rows(rows, kind, e) ==
    IF rows = <<>> THEN <<>>
    ELSE (IF eval_scalar(kind, e, Head(rows).p) THEN <<[row |-> Head(rows).row, value |-> TRUE]>>
          ELSE <<>>) \o filter_rows(Tail(rows), kind, e)

eval_rows(rows, kind, e) ==
    [i \in DOMAIN rows |-> [row |-> rows[i].row, value |-> eval_scalar(kind, e, rows[i].p)]]

group_rows(rows, kind, e) ==
    LET has(v) == \E i \in DOMAIN rows : eval_scalar(kind, e, rows[i].p) = v
    IN (IF has(FALSE) THEN <<[row |-> 0, value |-> FALSE]>> ELSE <<>>)
       \o (IF has(TRUE) THEN <<[row |-> 0, value |-> TRUE]>> ELSE <<>>)

run_operator(operator, rows, kind, e) ==
    CASE operator = "Filter" -> filter_rows(rows, kind, e)
      [] operator = "EvalScalar" -> eval_rows(rows, kind, e)
      [] operator = "Aggregate" -> group_rows(rows, kind, e)

outer_rows(q) == [i \in DOMAIN q.outer |-> [row |-> i, p |-> q.outer[i]]]

\* SExpr::create_unary, SExpr::create_binary, and the two plans the rewrite is
\* given: the input of the node (left) and the subquery.
create_unary(plan, child) == [plan |-> plan, children |-> <<child>>]
create_binary(plan, left_child, right_child) ==
    [plan |-> plan, children |-> <<left_child, right_child>>]
LeftPlan == [plan |-> [operator |-> "Input"], children |-> <<>>]
SubqueryPlan == [plan |-> [operator |-> "Subquery"], children |-> <<>>]

\* try_rewrite_uncorrelated_subquery for Exists and NotExists: the subquery
\* becomes Filter(count(*) = 1 or != 1) over Aggregate(count(*)) over Limit 1,
\* cross-joined to the input; the result is a SimpleJoin.
try_rewrite_uncorrelated_subquery(typ) ==
    LET limit == [operator |-> "Limit", limit |-> Some(1), offset |-> 0]
        subquery_expr == create_unary(limit, SubqueryPlan)
        agg == [operator |-> "Aggregate", group_items |-> <<>>,
                aggregate_functions |-> <<"count">>]
        compare == [op |-> IF typ = "Exists" THEN "Equal" ELSE "NotEqual",
                    left |-> "count(*)", right |-> 1]
        filter == [operator |-> "Filter", predicates |-> <<compare>>]
        rewritten_subquery == create_unary(filter, create_unary(agg, subquery_expr))
        cross_join_plan == [operator |-> "LogicalInnerJoin", join_type |-> "Cross",
                            left_conditions |-> <<>>, right_conditions |-> <<>>,
                            other_conditions |-> <<>>]
    IN [s_expr |-> create_binary(cross_join_plan, LeftPlan, rewritten_subquery),
        result |-> "SimpleJoin"]

\* Mutant: the subquery expression stays in its place.
try_rewrite_subquery_in_place(typ) ==
    [join |-> try_rewrite_uncorrelated_subquery(typ), replaced_by |-> FALSE]

\* try_rewrite_subquery: after a SimpleJoin the subquery is replaced by the
\* literal TRUE.
try_rewrite_subquery(typ) ==
    LET r == try_rewrite_uncorrelated_subquery(typ)
    IN [join |-> r, replaced_by |-> IF r.result = "SimpleJoin" THEN TRUE ELSE FALSE]

\* The rows of the rewritten subquery: Limit, then count(*), which gives one
\* row also on no input, then the filter on the count.
limit_rows(limit, n) ==
    IF limit.limit # None /\ n > Unwrap(limit.limit) THEN Unwrap(limit.limit) ELSE n

\* The number of rows the Aggregate of the rewritten subquery counts.
counted_rows(jn, sub_rows) ==
    LET filter == jn.s_expr.children[2]
        agg == filter.children[1]
        limit == agg.children[1]
    IN limit_rows(limit.plan, sub_rows)

rewritten_subquery_rows(jn, sub_rows) ==
    LET compare == jn.s_expr.children[2].plan.predicates[1]
        count == counted_rows(jn, sub_rows)
        kept == IF compare.op = "Equal" THEN count = compare.right
                ELSE count # compare.right
    IN IF kept THEN 1 ELSE 0

\* The cross join of the input with the rewritten subquery.
cross_join(rows, right_rows) == IF right_rows = 0 THEN <<>> ELSE rows

\* The rows the rewritten plan returns.
run_rewritten(q, rw) ==
    run_operator(q.operator,
                 cross_join(outer_rows(q), rewritten_subquery_rows(rw.join, q.sub_rows)),
                 q.kind, rw.replaced_by)

\* The rows the query returns when EXISTS is true exactly if the subquery
\* returns a row, and NOT EXISTS is its negation.
run_expected(q) ==
    LET exists == q.sub_rows > 0
        e == IF q.typ = "Exists" THEN exists ELSE ~exists
    IN run_operator(q.operator, outer_rows(q), q.kind, e)

RewriteInit ==
    /\ query \in [operator : Operators, kind : ScalarKinds, typ : ExistsTypes,
                  outer : OuterTables, sub_rows : 0 .. MaxRows]
    /\ rewritten = <<>>
    /\ output = <<>>
    /\ ForwardIdle
    /\ CascadesIdle
    /\ TxnIdle
    /\ JoinIdle
    /\ SnapshotIdle
    /\ StoreIdle
    /\ ReplayIdle
    /\ LeaderIdle
    /\ StopIdle
    /\ MarkIdle
    /\ ElectionIdle
    /\ UafIdle
    /\ RangeIdle
    /\ LeaveIdle
    /\ ScalarIdle
    /\ AnyIdle
    /\ BootIdle
    /\ OverflowCastIdle
    /\ AddNodeIdle
    /\ SuperTypeIdle
    /\ PartitionsIdle
    /\ PipelineIdle
    /\ RewriterIdle

\* SubqueryRewriter::rewrite on the plan node.
RewritePlan ==
    /\ rewritten = <<>>
    /\ rewritten' = <<try_rewrite_subquery(query.typ)>>
    /\ UNCHANGED <<query, output>>
    /\ UNCHANGED notRewrite

\* The rewritten plan is executed.
RunRewritten ==
    /\ rewritten # <<>>
    /\ output = <<>>
    /\ output' = <<run_rewritten(query, rewritten[1])>>
    /\ UNCHANGED <<query, rewritten>>
    /\ UNCHANGED notRewrite

RewriteNext ==
    \/ RewritePlan
    \/ RunRewritten

SpecRewrite == RewriteInit /\ [][RewriteNext]_vars

\* C16: for a subquery whose result is empty, the rewritten plan makes EXISTS
\* false and NOT EXISTS true for every outer row, wherever the subquery stands:
\* the rewritten plan returns the rows the query returns with that value in
\* the place of the subquery.
C16_EmptySubqueryExists ==
    (output # <<>> /\ query.sub_rows = 0) => output[1] = run_expected(query)

\* The plan CrossJoin(outer, Filter(count(*) op 1, Aggregate(count(*),
\* Limit 1 (subquery)))).
ExistsPlan(op) ==
    [plan |-> [operator |-> "LogicalInnerJoin", join_type |-> "Cross",
               left_conditions |-> <<>>, right_conditions |-> <<>>,
               other_conditions |-> <<>>],
     children |-> <<
        LeftPlan,
        [plan |-> [operator |-> "Filter",
                   predicates |-> <<[op |-> op, left |-> "count(*)", right |-> 1]>>],
         children |-> <<
            [plan |-> [operator |-> "Aggregate", group_items |-> <<>>,
                       aggregate_functions |-> <<"count">>],
             children |-> <<
                [plan |-> [operator |-> "Limit", limit |-> Some(1), offset |-> 0],
                 children |-> <<SubqueryPlan>>]>>]>>]>>]

\* C26: for every uncorrelated EXISTS or NOT EXISTS subquery the rewrite
\* produces CrossJoin(outer, Filter(count(*) op 1, Aggregate(count(*), Limit 1
\* (subquery)))) with op "=" for EXISTS and "!=" for NOT EXISTS, the aggregate
\* never counts more than one row, and the subquery expression is replaced by
\* the constant TRUE.
C26_ExistsPlanShape ==
    rewritten # <<>> =>
        /\ rewritten[1].join.result = "SimpleJoin"
        /\ rewritten[1].join.s_expr =
              ExistsPlan(IF query.typ = "Exists" THEN "Equal" ELSE "NotEqual")
        /\ counted_rows(rewritten[1].join, query.sub_rows) <= 1
        /\ counted_rows(rewritten[1].join, query.sub_rows) = 0 <=> query.sub_rows = 0
        /\ rewritten[1].replaced_by = TRUE

\* C26 witness: a NOT EXISTS subquery that returns MaxRows rows, more than
\* one, has been rewritten and the rewritten plan has run over MaxRows outer
\* rows.
C26_Witness ==
    /\ rewritten # <<>>
    /\ output # <<>>
    /\ query.typ = "NotExists"
    /\ query.sub_rows = MaxRows
    /\ MaxRows > 1
    /\ Len(query.outer) = MaxRows

(***************************************************************************)
(* try_rewrite_subquery after the unnesting did not end in a SimpleJoin:   *)
(* the scalar that stands in the place of the subquery, and its value for  *)
(* the outer rows.                                                         *)
(***************************************************************************)
SubqueryTypes == {"Scalar", "Exists", "NotExists", "Any"}

\* The value of the subquery output column c for an outer row: NULL (None)
\* where the join found no group for the row; a boolean is 0 or 1.
ColumnVals == OptionOf(0 .. NumSqlVals)

OutputColumns == UNION {[1 .. n -> ColumnVals] : n \in 0 .. MaxRows}

column_ref == [kind |-> "BoundColumnRef"]

FunctionCall(func_name, arguments) ==
    [kind |-> "FunctionCall", func_name |-> func_name, arguments |-> arguments]

\* Mutant: the column reference is used whatever the flattening reported.
replace_subquery_by_column(from_count_func, typ) == column_ref

\* "let scalar = if flatten_info.from_count_func { .. } else if subquery.typ ==
\* SubqueryType::NotExists { .. } else { column_ref }"
replace_subquery(from_count_func, typ) ==
    IF from_count_func THEN
        LET is_null == FunctionCall("is_not_null", <<column_ref>>)
            zero == [kind |-> "ConstantExpr", value |-> 0, data_type |-> "UInt64"]
        IN [kind |-> "CastExpr",
            argument |-> FunctionCall("if", <<is_null, column_ref, zero>>),
            target_type |-> "UInt64"]
    ELSE IF typ = "NotExists" THEN FunctionCall("not", <<column_ref>>)
    ELSE column_ref

\* The value of a scalar for an outer row whose output column holds c.
RECURSIVE eval_expr(_, _)
eval_expr(expr, c) ==
    CASE expr.kind = "BoundColumnRef" -> c
      [] expr.kind = "ConstantExpr" -> Some(expr.value)
      [] expr.kind = "CastExpr" -> eval_expr(expr.argument, c)
      [] expr.kind = "FunctionCall" ->
            LET args == [i \in DOMAIN expr.arguments |-> eval_expr(expr.arguments[i], c)]
            IN CASE expr.func_name = "is_not_null" ->
                       Some(IF args[1] = None THEN 0 ELSE 1)
                 [] expr.func_name = "if" ->
                       IF args[1] = Some(1) THEN args[2] ELSE args[3]
                 [] expr.func_name = "not" ->
                       IF args[1] = None THEN None
                       ELSE Some(IF Unwrap(args[1]) = 0 THEN 1 ELSE 0)

ScalarInit ==
    /\ flatten \in [from_count_func : BOOLEAN, typ : SubqueryTypes, column : OutputColumns]
    /\ replaced = <<>>
    /\ evaluated = <<>>
    /\ ForwardIdle
    /\ CascadesIdle
    /\ TxnIdle
    /\ JoinIdle
    /\ SnapshotIdle
    /\ StoreIdle
    /\ ReplayIdle
    /\ LeaderIdle
    /\ StopIdle
    /\ RewriteIdle
    /\ MarkIdle
    /\ ElectionIdle
    /\ UafIdle
    /\ RangeIdle
    /\ LeaveIdle
    /\ AnyIdle
    /\ BootIdle
    /\ OverflowCastIdle
    /\ AddNodeIdle
    /\ SuperTypeIdle
    /\ PartitionsIdle
    /\ PipelineIdle
    /\ RewriterIdle

\* try_rewrite_subquery puts the scalar in the place of the subquery.
ReplaceSubquery ==
    /\ replaced = <<>>
    /\ replaced' = <<replace_subquery(flatten.from_count_func, flatten.typ)>>
    /\ UNCHANGED <<flatten, evaluated>>
    /\ UNCHANGED notScalar

\* The scalar is evaluated for the next outer row.
EvalOuterRow ==
    /\ replaced # <<>>
    /\ Len(evaluated) < Len(flatten.column)
    /\ evaluated' = Append(evaluated,
                           eval_expr(replaced[1], flatten.column[Len(evaluated) + 1]))
    /\ UNCHANGED <<flatten, replaced>>
    /\ UNCHANGED notScalar

ScalarNext ==
    \/ ReplaceSubquery
    \/ EvalOuterRow

SpecScalar == ScalarInit /\ [][ScalarNext]_vars

\* cast(if(is_not_null(c), c, 0) as UInt64)
CountOrZero ==
    [kind |-> "CastExpr",
     argument |-> FunctionCall("if", <<FunctionCall("is_not_null", <<column_ref>>),
                                       column_ref,
                                       [kind |-> "ConstantExpr", value |-> 0,
                                        data_type |-> "UInt64"]>>),
     target_type |-> "UInt64"]

\* C27: when flattening reports from_count_func, the scalar that replaces the
\* subquery is cast(if(is_not_null(c), c, 0) as UInt64) over the subquery
\* output column c: it is 0, never NULL, for an outer row without a matching
\* group, and the count for the others; when from_count_func is false the
\* column reference is used as is, wrapped in not() for NOT EXISTS, and is
\* NULL where c is NULL.
C27_CountIsZeroNotNull ==
    replaced # <<>> =>
        /\ flatten.from_count_func =>
              /\ replaced[1] = CountOrZero
              /\ \A i \in DOMAIN evaluated :
                    /\ evaluated[i] # None
                    /\ flatten.column[i] = None => evaluated[i] = Some(0)
                    /\ flatten.column[i] # None => evaluated[i] = flatten.column[i]
        /\ ~flatten.from_count_func =>
              /\ replaced[1] = IF flatten.typ = "NotExists"
                                  THEN FunctionCall("not", <<column_ref>>)
                                  ELSE column_ref
              /\ \A i \in DOMAIN evaluated :
                    /\ flatten.column[i] = None <=> evaluated[i] = None
                    /\ (flatten.typ # "NotExists") => evaluated[i] = flatten.column[i]

\* C27 witness: the flattening reported from_count_func, MaxRows outer rows
\* have been evaluated, one without a matching group, which got 0, and one
\* with a count, which kept it.
C27_Witness ==
    /\ flatten # <<>>
    /\ flatten.from_count_func
    /\ Len(evaluated) = MaxRows
    /\ \E i, j \in DOMAIN evaluated :
          /\ flatten.column[i] = None /\ evaluated[i] = Some(0)
          /\ flatten.column[j] = Some(NumSqlVals) /\ evaluated[j] = Some(NumSqlVals)

(***************************************************************************)
(* An uncorrelated "= ANY" subquery: the rewriter builds a LeftMark join   *)
(* with the subquery as its probe side; the join gives every outer row a   *)
(* marker True, False or Null.                                             *)
(***************************************************************************)
\* A SQL value: NULL is None.
SqlVals == OptionOf(1 .. NumSqlVals)

SqlColumns == UNION {[1 .. n -> SqlVals] : n \in 0 .. MaxRows}

MarkerKind == {"True", "False", "Null"}

\* A child expression: a column of the outer plan, a constant, a function
\* call, or a cast of a child expression.
CastExpr(argument) == [kind |-> "CastExpr", argument |-> argument]

RECURSIVE CastsOf(_, _)
CastsOf(exprs, n) ==
    IF n = 0 THEN exprs ELSE exprs \cup {CastExpr(e) : e \in CastsOf(exprs, n - 1)}

\* The child expressions of the mark join that is run.
ChildExprs ==
    {[kind |-> "BoundColumnRef"], [kind |-> "ConstantExpr"],
     CastExpr([kind |-> "BoundColumnRef"])}

ComparisonOps == {"Equal", "NotEqual", "GT", "LT", "GTE", "LTE"}

\* Mutant: a column is an equi-join key under every operator.
column_is_join_key(op) == FALSE

\* "Scalar::BoundColumnRef(_) => Ok((child_expr.clone(), op != &ComparisonOp::Equal))"
column_is_other_condition(op) == op # "Equal"

\* check_child_expr_in_subquery: the comparison is an other-condition unless
\* it is "=" on a column (or a cast of one); an expression of another shape is
\* an error.
RECURSIVE check_child_expr_in_subquery(_, _)
check_child_expr_in_subquery(child_expr, op) ==
    CASE child_expr.kind = "BoundColumnRef" ->
            [error |-> None, is_other_condition |-> column_is_other_condition(op)]
      [] child_expr.kind = "ConstantExpr" ->
            [error |-> None, is_other_condition |-> TRUE]
      [] child_expr.kind = "CastExpr" ->
            check_child_expr_in_subquery(child_expr.argument, op)
      [] OTHER ->
            [error |-> Some("LogicalError"), is_other_condition |-> FALSE]

\* The column of the subquery output that the child expression is compared with.
subquery_column == [kind |-> "BoundColumnRef", column_name |-> "subquery"]

\* try_rewrite_uncorrelated_subquery for SubqueryType::Any: the subquery is
\* the left child of the join and its probe side.
rewrite_any(child_expr, op) ==
    LET checked == check_child_expr_in_subquery(child_expr, op)
        other_condition == [kind |-> "ComparisonExpr", op |-> op,
                            left |-> child_expr, right |-> subquery_column]
    IN IF checked.error # None THEN [result |-> Unwrap(checked.error)]
       ELSE [result |-> "MarkJoin",
             join_type |-> "LeftMark",
             probe_side |-> "subquery",
             children |-> <<SubqueryPlan, LeftPlan>>,
             equi_condition |-> ~checked.is_other_condition,
             left_conditions |-> IF checked.is_other_condition THEN <<>>
                                 ELSE <<subquery_column>>,
             right_conditions |-> IF checked.is_other_condition THEN <<>>
                                  ELSE <<child_expr>>,
             other_conditions |-> IF checked.is_other_condition THEN <<other_condition>>
                                  ELSE <<>>,
             marker_type |-> "Nullable(Boolean)"]

\* Mutant: the markers stay as the probe left them.
finish_marker_as_is(marker, has_null) == marker

\* MarkJoinDesc::has_null: once the subquery has shown a NULL, a row that was
\* not matched is Null instead of False.
finish_marker(marker, has_null) == IF has_null /\ marker = "False" THEN "Null" ELSE marker

\* The marker of an outer row before the subquery rows are seen.
init_marker(v) == "False"

\* The marker of an outer row after one more subquery row: True once the two
\* values are equal; the comparison of a NULL outer value with any row is
\* unknown, so its marker is Null.
probe_marker(marker, v, sub_v) ==
    IF v = None THEN "Null"
    ELSE IF sub_v # None /\ v = sub_v THEN "True" ELSE marker

MarkInit ==
    /\ anyq \in [child_expr : ChildExprs, outer : SqlColumns, subquery : SqlColumns]
    /\ mark_join = <<>>
    /\ markers = <<>>
    /\ ForwardIdle
    /\ CascadesIdle
    /\ TxnIdle
    /\ JoinIdle
    /\ SnapshotIdle
    /\ StoreIdle
    /\ ReplayIdle
    /\ LeaderIdle
    /\ StopIdle
    /\ RewriteIdle
    /\ ElectionIdle
    /\ UafIdle
    /\ RangeIdle
    /\ LeaveIdle
    /\ ScalarIdle
    /\ AnyIdle
    /\ BootIdle
    /\ OverflowCastIdle
    /\ AddNodeIdle
    /\ SuperTypeIdle
    /\ PartitionsIdle
    /\ PipelineIdle
    /\ RewriterIdle

\* The rewriter builds the mark join; the join reads the outer rows.
RewriteAny ==
    /\ mark_join = <<>>
    /\ mark_join' = <<[plan |-> rewrite_any(anyq.child_expr, "Equal"), probed |-> 0,
                       has_null |-> FALSE, finished |-> FALSE]>>
    /\ markers' = [i \in DOMAIN anyq.outer |-> init_marker(anyq.outer[i])]
    /\ UNCHANGED anyq
    /\ UNCHANGED notMark

\* The join probes with the next row of the subquery.
ProbeSubqueryRow ==
    /\ mark_join # <<>>
    /\ ~mark_join[1].finished
    /\ mark_join[1].probed < Len(anyq.subquery)
    /\ LET sub_v == anyq.subquery[mark_join[1].probed + 1]
       IN /\ markers' = [i \in DOMAIN markers |-> probe_marker(markers[i], anyq.outer[i], sub_v)]
          /\ mark_join' = <<[mark_join[1] EXCEPT !.probed = @ + 1,
                                                !.has_null = @ \/ sub_v = None]>>
    /\ UNCHANGED anyq
    /\ UNCHANGED notMark

\* The subquery is exhausted: the join gives out the markers.
FinishMarkJoin ==
    /\ mark_join # <<>>
    /\ ~mark_join[1].finished
    /\ mark_join[1].probed = Len(anyq.subquery)
    /\ markers' = [i \in DOMAIN markers |-> finish_marker(markers[i], mark_join[1].has_null)]
    /\ mark_join' = <<[mark_join[1] EXCEPT !.finished = TRUE]>>
    /\ UNCHANGED anyq
    /\ UNCHANGED notMark

MarkNext ==
    \/ RewriteAny
    \/ ProbeSubqueryRow
    \/ FinishMarkJoin

SpecMark == MarkInit /\ [][MarkNext]_vars

MarkJoinFinished == mark_join # <<>> /\ mark_join[1].finished

\* The outer value equals some value of the subquery.
Matches(v) == v # None /\ \E i \in DOMAIN anyq.subquery : anyq.subquery[i] = v

SubqueryHasNull == \E i \in DOMAIN anyq.subquery : anyq.subquery[i] = None

AnyChildExprs ==
    CastsOf({[kind |-> "BoundColumnRef"], [kind |-> "ConstantExpr"],
             [kind |-> "FunctionCall"]}, MaxCasts)

AnyInit ==
    /\ any_call \in [child_expr : AnyChildExprs, op : ComparisonOps]
    /\ any_plan = <<>>
    /\ ForwardIdle
    /\ CascadesIdle
    /\ TxnIdle
    /\ JoinIdle
    /\ SnapshotIdle
    /\ StoreIdle
    /\ ReplayIdle
    /\ LeaderIdle
    /\ StopIdle
    /\ RewriteIdle
    /\ MarkIdle
    /\ ElectionIdle
    /\ UafIdle
    /\ RangeIdle
    /\ LeaveIdle
    /\ ScalarIdle
    /\ BootIdle
    /\ OverflowCastIdle
    /\ AddNodeIdle
    /\ SuperTypeIdle
    /\ PartitionsIdle
    /\ PipelineIdle
    /\ RewriterIdle

\* try_rewrite_uncorrelated_subquery is called for the ANY subquery.
RewriteAnySubquery ==
    /\ any_plan = <<>>
    /\ any_plan' = <<rewrite_any(any_call.child_expr, any_call.op)>>
    /\ UNCHANGED any_call
    /\ UNCHANGED notAny

AnyNext == RewriteAnySubquery

SpecAny == AnyInit /\ [][AnyNext]_vars

\* The expression under the casts.
RECURSIVE UnderCasts(_)
UnderCasts(e) == IF e.kind = "CastExpr" THEN UnderCasts(e.argument) ELSE e

\* C28: for an uncorrelated ANY subquery the rewrite produces a LeftMark join
\* with the subquery as left child and the outer plan as right child and a
\* Nullable(Boolean) marker column; the comparison is an equi-join key pair
\* only when the child expression is a column reference, possibly under
\* casts, compared with "="; a constant child or any other operator gives
\* exactly one non-equi condition; any other shape of the child expression
\* fails with LogicalError.
C28_AnyPlanShape ==
    any_plan # <<>> =>
        LET e == any_call.child_expr
            shape == UnderCasts(e).kind
            plan == any_plan[1]
        IN IF shape \notin {"BoundColumnRef", "ConstantExpr"}
              THEN plan.result = "LogicalError"
              ELSE /\ plan.result = "MarkJoin"
                   /\ plan.join_type = "LeftMark"
                   /\ plan.children = <<SubqueryPlan, LeftPlan>>
                   /\ plan.marker_type = "Nullable(Boolean)"
                   /\ IF shape = "BoundColumnRef" /\ any_call.op = "Equal"
                         THEN /\ plan.left_conditions = <<subquery_column>>
                              /\ plan.right_conditions = <<e>>
                              /\ plan.other_conditions = <<>>
                         ELSE /\ plan.left_conditions = <<>>
                              /\ plan.right_conditions = <<>>
                              /\ Len(plan.other_conditions) = 1
                              /\ plan.other_conditions[1].op = any_call.op
                              /\ plan.other_conditions[1].left = e
                              /\ plan.other_conditions[1].right = subquery_column

\* C28 witness: a column under MaxCasts casts compared with "=" has become
\* the key pair of a LeftMark join.
C28_Witness ==
    /\ any_plan # <<>>
    /\ any_call.op = "Equal"
    /\ any_call.child_expr \in CastsOf({[kind |-> "BoundColumnRef"]}, MaxCasts)
    /\ any_call.child_expr \notin CastsOf({[kind |-> "BoundColumnRef"]}, MaxCasts - 1)
    /\ any_plan[1].result = "MarkJoin"
    /\ Len(any_plan[1].right_conditions) = 1

(***************************************************************************)
(* Leader election of a three-node cluster with one node partitioned away. *)
(* The timers come from new_raft_config; time is counted in ticks and a    *)
(* vote request between reachable nodes is answered within the tick.       *)
(***************************************************************************)
ElectionNodes == {1, 2, 3}

\* RaftConfig::heartbeat_interval, in ticks.
HeartbeatIntervals == {1}

\* The last log index of a node when the old leader is lost.
ElectionLogs == {0, 1}

\* MetaNode::new_raft_config
new_raft_config(hb) ==
    [heartbeat_interval |-> hb,
     election_timeout_min |-> hb * 8,
     election_timeout_max |-> hb * 12]

\* A fresh election timeout, drawn between the two limits of the config.
ElectionTimeouts == raft_config.election_timeout_min .. raft_config.election_timeout_max

\* Mutant: one vote is enough.
quorum_of_one(n) == 1

\* A strict majority of n nodes.
quorum(n) == (n \div 2) + 1

Reachable == ElectionNodes \ {isolated}

\* The nodes a vote request of n arrives at.
Peers(n) == IF n = isolated THEN {} ELSE Reachable \ {n}

HasLeader == \E n \in Reachable : raft[n].role = "Leader"

\* A node votes for a candidate of its term when it has not voted for another
\* and the candidate's log is at least as up-to-date as its own.
grant_vote(voter, req) ==
    /\ req.term = voter.term
    /\ voter.voted_for \in {None, Some(req.from)}
    /\ req.last_log_index >= voter.last_log_index

\* A higher term makes a node a follower of that term.
see_term(node, term) ==
    IF term > node.term
       THEN [node EXCEPT !.term = term, !.role = "Follower", !.voted_for = None, !.votes = {}]
       ELSE node

\* A candidate with the votes of a quorum is the leader; a leader runs no
\* election timer.
count_votes(node) ==
    IF node.role = "Candidate" /\ Cardinality(node.votes) >= quorum(Cardinality(ElectionNodes))
       THEN [node EXCEPT !.role = "Leader", !.deadline = 0]
       ELSE node

ElectionInit ==
    /\ \E hb \in HeartbeatIntervals : raft_config = new_raft_config(hb)
    /\ isolated \in ElectionNodes
    /\ raft \in [ElectionNodes -> [role : {"Follower", "Leader"}, term : {0}, voted_for : {None},
                                   votes : {{}}, deadline : {0} \cup ElectionTimeouts,
                                   last_log_index : ElectionLogs]]
    /\ \A n \in ElectionNodes :
          IF n = isolated
             THEN raft[n].last_log_index = 0
                  /\ (raft[n].role = "Leader" <=> raft[n].deadline = 0)
             ELSE raft[n].role = "Follower" /\ raft[n].deadline # 0
    /\ vote_reqs = {}
    /\ clock = 0
    /\ splits = 0
    /\ ForwardIdle
    /\ CascadesIdle
    /\ TxnIdle
    /\ JoinIdle
    /\ SnapshotIdle
    /\ StoreIdle
    /\ ReplayIdle
    /\ LeaderIdle
    /\ StopIdle
    /\ RewriteIdle
    /\ MarkIdle
    /\ UafIdle
    /\ RangeIdle
    /\ LeaveIdle
    /\ ScalarIdle
    /\ AnyIdle
    /\ BootIdle
    /\ OverflowCastIdle
    /\ AddNodeIdle
    /\ SuperTypeIdle
    /\ PartitionsIdle
    /\ PipelineIdle
    /\ RewriterIdle

\* The election timer of n can fire now: it hears from no leader.
TimeoutEnabled(n) ==
    /\ raft[n].role \in {"Follower", "Candidate"}
    /\ raft[n].deadline = clock
    /\ ~(n \in Reachable /\ HasLeader)

\* The election timer of n fires: n becomes a candidate of the next term,
\* votes for itself and asks its peers; a peer that is a candidate of the same
\* term at this moment makes it a split vote.
ElectionTimeout(n) ==
    /\ TimeoutEnabled(n)
    /\ LET term == raft[n].term + 1
           collides == \E r \in vote_reqs : r.to = n /\ r.term = term
       IN /\ \E timeout \in ElectionTimeouts :
                raft' = [raft EXCEPT ![n] =
                            count_votes([@ EXCEPT !.role = "Candidate", !.term = term,
                                                  !.voted_for = Some(n), !.votes = {n},
                                                  !.deadline = clock + timeout])]
          /\ vote_reqs' = vote_reqs \cup
                            {[from |-> n, to |-> peer, term |-> term,
                              last_log_index |-> raft[n].last_log_index] : peer \in Peers(n)}
          /\ splits' = IF collides THEN splits + 1 ELSE splits
    /\ UNCHANGED <<raft_config, isolated, clock>>
    /\ UNCHANGED notElection

\* A vote request arrives: the voter takes the higher term, grants or denies,
\* and restarts its timer when it grants; the candidate counts the vote. Under
\* a leader the heartbeats restart the timer before it fires: it is kept as 0.
HandleVoteRequest(req) ==
    /\ req \in vote_reqs
    /\ LET voter == see_term(raft[req.to], req.term)
           granted == grant_vote(voter, req)
           cand == raft[req.from]
           counted == IF granted /\ cand.role = "Candidate" /\ cand.term = req.term
                         THEN count_votes([cand EXCEPT !.votes = @ \cup {req.to}])
                         ELSE cand
       IN \E timeout \in ElectionTimeouts :
             raft' = [raft EXCEPT
                         ![req.to] = IF granted
                                        THEN [voter EXCEPT
                                                 !.voted_for = Some(req.from),
                                                 !.deadline = IF counted.role = "Leader"
                                                                 THEN 0 ELSE clock + timeout]
                                        ELSE voter,
                         ![req.from] = counted]
    /\ vote_reqs' = vote_reqs \ {req}
    /\ UNCHANGED <<raft_config, isolated, clock, splits>>
    /\ UNCHANGED notElection

\* Time passes once every timer that is due has fired and every request has
\* been answered.
Tick ==
    /\ vote_reqs = {}
    /\ \A n \in ElectionNodes : ~TimeoutEnabled(n)
    /\ clock < MaxClock
    /\ clock' = clock + 1
    /\ UNCHANGED <<raft_config, isolated, raft, vote_reqs, splits>>
    /\ UNCHANGED notElection

ElectionNext ==
    \/ \E n \in ElectionNodes : ElectionTimeout(n)
    \/ \E req \in vote_reqs : HandleVoteRequest(req)
    \/ Tick

SpecElection == ElectionInit /\ [][ElectionNext]_vars

\* The isolated node has won no election: it is the leader only when it was
\* the leader before the partition.
IsolatedNeverElected == raft[isolated].role = "Leader" => raft[isolated].term = 0

UafVals == 1 .. (NumVals + 1)

\* KV::serialize_key, KV::serialize_value and KV::deserialize_value
serialize_key(k) == <<"key", k>>
serialize_value(v) == <<"value", v>>
deserialize_value(ivec) == ivec[2]

KeyIVecs == {serialize_key(k) : k \in Keys}
ValueIVecs == {serialize_value(v) : v \in UafVals}

\* The closures f: any function from the current value to the new one.
Closures == [OptionOf(UafVals) -> OptionOf(UafVals)]

\* The conversion that fails in a call, if any.
UafFailures == {"none", "serialize_key", "deserialize_value", "serialize_value"}

\* Mutant: a None from f leaves the key as it is.
write_new_val_keeps(t, key_ivec, new_val) ==
    IF new_val = None THEN t ELSE [t EXCEPT ![key_ivec] = Some(serialize_value(Unwrap(new_val)))]

\* "match new_val": Some(v) is inserted, None removes the key.
write_new_val(t, key_ivec, new_val) ==
    IF new_val = None THEN [t EXCEPT ![key_ivec] = None]
    ELSE [t EXCEPT ![key_ivec] = Some(serialize_value(Unwrap(new_val)))]

\* "match old_val_ivec"
read_old_val(old_val_ivec) ==
    IF old_val_ivec = None THEN None ELSE Some(deserialize_value(Unwrap(old_val_ivec)))

\* update_and_fetch(key, f), with the conversion `fails` failing: the tree
\* afterwards, the arguments f was called with, and the result.
update_and_fetch(t, key, f, fails) ==
    LET key_ivec == serialize_key(key)
        old_val == read_old_val(t[key_ivec])
        new_val == f[old_val]
    IN  CASE fails = "serialize_key" ->
                [txn_tree |-> t, f_calls |-> <<>>, result |-> [err |-> "BytesError"]]
          [] fails = "deserialize_value" /\ t[key_ivec] # None ->
                [txn_tree |-> t, f_calls |-> <<>>, result |-> [err |-> "BytesError"]]
          [] fails = "serialize_value" /\ new_val # None ->
                [txn_tree |-> t, f_calls |-> <<old_val>>, result |-> [err |-> "BytesError"]]
          [] OTHER ->
                [txn_tree |-> write_new_val(t, key_ivec, new_val), f_calls |-> <<old_val>>,
                 result |-> [ok |-> new_val]]

UafInit ==
    /\ txn_tree \in [KeyIVecs -> OptionOf(ValueIVecs)]
    /\ uaf = <<>>
    /\ ForwardIdle
    /\ CascadesIdle
    /\ TxnIdle
    /\ JoinIdle
    /\ SnapshotIdle
    /\ StoreIdle
    /\ ReplayIdle
    /\ LeaderIdle
    /\ StopIdle
    /\ RewriteIdle
    /\ MarkIdle
    /\ ElectionIdle
    /\ RangeIdle
    /\ LeaveIdle
    /\ ScalarIdle
    /\ AnyIdle
    /\ BootIdle
    /\ OverflowCastIdle
    /\ AddNodeIdle
    /\ SuperTypeIdle
    /\ PartitionsIdle
    /\ PipelineIdle
    /\ RewriterIdle

\* The call of update_and_fetch inside the transaction closure, on any
\* content of the key space.
UpdateAndFetch ==
    /\ uaf = <<>>
    /\ \E key \in Keys, f \in Closures, fails \in UafFailures :
          LET done == update_and_fetch(txn_tree, key, f, fails)
          IN  /\ txn_tree' = done.txn_tree
              /\ uaf' = <<[key |-> key, f |-> f, before |-> txn_tree,
                           f_calls |-> done.f_calls, result |-> done.result]>>
    /\ UNCHANGED notUaf

UafNext == UpdateAndFetch

SpecUaf == UafInit /\ [][UafNext]_vars

\* The value of key k in tree t, None when the key is absent.
ValueAt(t, k) ==
    IF t[<<"key", k>>] = None THEN None ELSE Some(Unwrap(t[<<"key", k>>])[2])

UafOk == uaf # <<>> /\ "ok" \in DOMAIN uaf[1].result

\* C20: a call of update_and_fetch(key, f) that returns Ok has called f once,
\* with the value the key had (None if absent); the key holds v afterwards if
\* f returned Some(v) and is absent if f returned None; the call returns what
\* f returned; no other key is touched. A call that returns an error has
\* called f at most once and has written nothing.
C20_UpdateAndFetch ==
    uaf # <<>> =>
        LET call == uaf[1]
            old_val == ValueAt(call.before, call.key)
        IN  IF UafOk
               THEN /\ call.f_calls = <<old_val>>
                    /\ call.result.ok = call.f[old_val]
                    /\ ValueAt(txn_tree, call.key) = call.f[old_val]
                    /\ \A k \in Keys \ {call.key} :
                          txn_tree[serialize_key(k)] = call.before[serialize_key(k)]
               ELSE /\ Len(call.f_calls) <= 1
                    /\ txn_tree = call.before

\* C20 witness: the key was present, f returned None for its value, the call
\* returned None and the key is absent, with another key still present.
C20_Witness ==
    /\ UafOk
    /\ ValueAt(uaf[1].before, uaf[1].key) # None
    /\ uaf[1].result.ok = None
    /\ ValueAt(txn_tree, uaf[1].key) = None
    /\ \E k \in Keys \ {uaf[1].key} : ValueAt(txn_tree, k) # None

(***************************************************************************)
(* SledTree::range, range_remove and scan_prefix.  One sled tree holds the *)
(* entries of several key spaces; a key is stored as the prefix byte of    *)
(* its key space followed by the order-preserving bytes of the key.  An    *)
(* entry's value travels with its key and is left out.                     *)
(***************************************************************************)
\* Two key spaces in one tree: 1 has integer keys, 2 has string keys.
KeySpacePrefixes == {1, 2}

IntKeys == 0 .. 3
StringKeys == {<<>>, <<0>>, <<1>>, <<0, 0>>, <<0, 1>>, <<1, 0>>, <<1, 1>>}

KeysOf(ks) == IF ks = 1 THEN IntKeys ELSE StringKeys

\* Mutant: the low byte of an integer key is written first.
ordered_bytes_low_first(ks, k) == IF ks = 1 THEN <<k % 2, k \div 2>> ELSE k

\* The order-preserving bytes of a key: an integer high byte first, a string
\* as it is.
ordered_bytes(ks, k) == IF ks = 1 THEN <<k \div 2, k % 2>> ELSE k

\* KV::serialize_key and KV::deserialize_key
serialize_key_of(ks, k) == <<ks>> \o ordered_bytes(ks, k)
deserialize_key_of(ks, ivec) ==
    IF ks = 1 THEN ivec[2] * 2 + ivec[3] ELSE Tail(ivec)

IVecs == UNION {{serialize_key_of(ks, k) : k \in KeysOf(ks)} : ks \in KeySpacePrefixes}

\* Byte strings in lexicographic order, as sled keeps them.
RECURSIVE ivec_less(_, _)
ivec_less(a, b) ==
    IF b = <<>> THEN FALSE
    ELSE IF a = <<>> THEN TRUE
    ELSE IF Head(a) # Head(b) THEN Head(a) < Head(b)
    ELSE ivec_less(Tail(a), Tail(b))

starts_with(ivec, pref) ==
    Len(pref) <= Len(ivec) /\ SubSeq(ivec, 1, Len(pref)) = pref

\* A set of byte strings as the sequence sled iterates.
RECURSIVE in_sled_order(_)
in_sled_order(S) ==
    IF S = {} THEN <<>>
    ELSE LET least == CHOOSE x \in S : \A y \in S \ {x} : ivec_less(x, y)
         IN  <<least>> \o in_sled_order(S \ {least})

\* std::ops::Bound
Unbounded == [bound |-> "Unbounded"]
Included(k) == [bound |-> "Included", key |-> k]
Excluded(k) == [bound |-> "Excluded", key |-> k]

BoundsOf(ks) == {Unbounded} \cup {Included(k) : k \in KeysOf(ks)} \cup {Excluded(k) : k \in KeysOf(ks)}

\* KV::serialize_range: a bound on a key becomes a bound on its bytes; an open
\* side stops at the first and after the last byte string of the key space.
serialize_bound(ks, b, side) ==
    CASE b.bound = "Included" -> Included(serialize_key_of(ks, b.key))
      [] b.bound = "Excluded" -> Excluded(serialize_key_of(ks, b.key))
      [] b.bound = "Unbounded" -> IF side = "left" THEN Included(<<ks>>) ELSE Excluded(<<ks + 1>>)

serialize_range(ks, r) ==
    [start |-> serialize_bound(ks, r.start, "left"), end |-> serialize_bound(ks, r.end, "right")]

\* sled::Tree::range and sled::Tree::scan_prefix
in_sled_range(ivec, r) ==
    /\ CASE r.start.bound = "Included" -> ~ivec_less(ivec, r.start.key)
         [] r.start.bound = "Excluded" -> ivec_less(r.start.key, ivec)
         [] r.start.bound = "Unbounded" -> TRUE
    /\ CASE r.end.bound = "Included" -> ~ivec_less(r.end.key, ivec)
         [] r.end.bound = "Excluded" -> ivec_less(ivec, r.end.key)
         [] r.end.bound = "Unbounded" -> TRUE

sled_range(t, r) == in_sled_order({ivec \in t : in_sled_range(ivec, r)})
sled_scan_prefix(t, pref) == in_sled_order({ivec \in t : starts_with(ivec, pref)})

RECURSIVE remove_all(_, _)
remove_all(t, ks) == IF ks = <<>> THEN t ELSE remove_all(t \ {Head(ks)}, Tail(ks))

\* SledTree::range: the items of the key space in the range, in sled's order;
\* each item gives its key by deserialize_key.
range(t, ks, r) ==
    LET items == sled_range(t, serialize_range(ks, r))
    IN  [sled_tree |-> t,
         result |-> [ok |-> [i \in DOMAIN items |-> deserialize_key_of(ks, items[i])]]]

\* SledTree::range_remove: every key sled gives for the range is put in one
\* batch of removals, and the batch is applied.
range_remove(t, ks, r) ==
    [sled_tree |-> remove_all(t, sled_range(t, serialize_range(ks, r))),
     result |-> [ok |-> <<>>]]

\* SledTree::scan_prefix
scan_prefix(t, ks, prefix) ==
    LET items == sled_scan_prefix(t, serialize_key_of(ks, prefix))
    IN  [sled_tree |-> t,
         result |-> [ok |-> [i \in DOMAIN items |-> deserialize_key_of(ks, items[i])]]]

\* AsKeySpace::clear: self.inner.tree.clear() is sled::Tree::clear, which
\* removes every item of the tree.
clear(t, ks) == [sled_tree |-> {}, result |-> [ok |-> <<>>]]

\* The serialization of the range or of the prefix fails: nothing is done.
bytes_error(t) == [sled_tree |-> t, result |-> [err |-> "BytesError"]]

RangeInit ==
    /\ sled_tree \in {t \in SUBSET IVecs : Cardinality(t) <= MaxEntries}
    /\ range_call = <<>>
    /\ ForwardIdle
    /\ CascadesIdle
    /\ TxnIdle
    /\ JoinIdle
    /\ SnapshotIdle
    /\ StoreIdle
    /\ ReplayIdle
    /\ LeaderIdle
    /\ StopIdle
    /\ RewriteIdle
    /\ MarkIdle
    /\ ElectionIdle
    /\ UafIdle
    /\ LeaveIdle
    /\ ScalarIdle
    /\ AnyIdle
    /\ BootIdle
    /\ OverflowCastIdle
    /\ AddNodeIdle
    /\ SuperTypeIdle
    /\ PartitionsIdle
    /\ PipelineIdle
    /\ RewriterIdle

RangeCall ==
    /\ range_call = <<>>
    /\ \E ks \in KeySpacePrefixes, fails \in BOOLEAN :
          \E r \in [start : BoundsOf(ks), end : BoundsOf(ks)] :
             LET done == IF fails THEN bytes_error(sled_tree) ELSE range(sled_tree, ks, r)
             IN  /\ sled_tree' = done.sled_tree
                 /\ range_call' = <<[op |-> "range", ks |-> ks, range |-> r,
                                     before |-> sled_tree, result |-> done.result]>>
    /\ UNCHANGED notRange

RangeRemoveCall ==
    /\ range_call = <<>>
    /\ \E ks \in KeySpacePrefixes, fails \in BOOLEAN :
          \E r \in [start : BoundsOf(ks), end : BoundsOf(ks)] :
             LET done == IF fails THEN bytes_error(sled_tree) ELSE range_remove(sled_tree, ks, r)
             IN  /\ sled_tree' = done.sled_tree
                 /\ range_call' = <<[op |-> "range_remove", ks |-> ks, range |-> r,
                                     before |-> sled_tree, result |-> done.result]>>
    /\ UNCHANGED notRange

ScanPrefixCall ==
    /\ range_call = <<>>
    /\ \E ks \in KeySpacePrefixes, fails \in BOOLEAN :
          \E prefix \in KeysOf(ks) :
             LET done == IF fails THEN bytes_error(sled_tree) ELSE scan_prefix(sled_tree, ks, prefix)
             IN  /\ sled_tree' = done.sled_tree
                 /\ range_call' = <<[op |-> "scan_prefix", ks |-> ks, prefix |-> prefix,
                                     before |-> sled_tree, result |-> done.result]>>
    /\ UNCHANGED notRange

\* AsKeySpace::<KV>::clear; when sled fails, the items it removed before the
\* failure are gone.
ClearCall ==
    /\ range_call = <<>>
    /\ \E ks \in KeySpacePrefixes, fails \in BOOLEAN :
          \E left \in SUBSET sled_tree :
             LET done == IF fails
                         THEN [sled_tree |-> left, result |-> [err |-> "SledError"]]
                         ELSE clear(sled_tree, ks)
             IN  /\ sled_tree' = done.sled_tree
                 /\ range_call' = <<[op |-> "clear", ks |-> ks,
                                     before |-> sled_tree, result |-> done.result]>>
    /\ UNCHANGED notRange

RangeNext ==
    \/ RangeCall
    \/ RangeRemoveCall
    \/ ScanPrefixCall
    \/ ClearCall

SpecRange == RangeInit /\ [][RangeNext]_vars

\* The logical order of the keys of a key space: integers by value, strings
\* character by character.
RECURSIVE string_less(_, _)
string_less(a, b) ==
    IF b = <<>> THEN FALSE
    ELSE IF a = <<>> THEN TRUE
    ELSE Head(a) < Head(b) \/ (Head(a) = Head(b) /\ string_less(Tail(a), Tail(b)))

key_less(ks, a, b) == IF ks = 1 THEN a < b ELSE string_less(a, b)

InRange(ks, k, r) ==
    /\ r.start.bound = "Included" => ~key_less(ks, k, r.start.key)
    /\ r.start.bound = "Excluded" => key_less(ks, r.start.key, k)
    /\ r.end.bound = "Included" => ~key_less(ks, r.end.key, k)
    /\ r.end.bound = "Excluded" => key_less(ks, k, r.end.key)

HasPrefix(ks, k, prefix) ==
    IF ks = 1 THEN k = prefix
    ELSE Len(prefix) <= Len(k) /\ \A i \in 1 .. Len(prefix) : k[i] = prefix[i]

\* The keys of key space ks that a tree holds.
KeysIn(t, ks) == {k \in KeysOf(ks) : <<ks>> \o (IF ks = 1 THEN <<k \div 2, k % 2>> ELSE k) \in t}

\* The entries of the key spaces other than ks.
OtherSpaces(t, ks) == {ivec \in t : ivec[1] # ks}

\* The keys the last call was to select.
Selected ==
    LET call == range_call[1]
    IN  {k \in KeysIn(call.before, call.ks) :
            IF call.op = "scan_prefix" THEN HasPrefix(call.ks, k, call.prefix)
            ELSE InRange(call.ks, k, call.range)}

RangeOk == range_call # <<>> /\ "ok" \in DOMAIN range_call[1].result

\* C21: range and scan_prefix return exactly the keys of the key space that
\* lie in the range or have the prefix, each once, in ascending logical order,
\* and change nothing; range_remove removes exactly those keys; every key
\* outside the selection and every entry of the other key space stays. A call
\* whose range or prefix fails to serialize changes nothing.
C21_RangeWithinKeySpace ==
    (range_call # <<>> /\ range_call[1].op # "clear") =>
        LET call == range_call[1]
            got == call.result.ok
        IN  IF ~RangeOk THEN sled_tree = call.before
            ELSE /\ OtherSpaces(sled_tree, call.ks) = OtherSpaces(call.before, call.ks)
                 /\ IF call.op = "range_remove"
                       THEN KeysIn(sled_tree, call.ks) = KeysIn(call.before, call.ks) \ Selected
                       ELSE /\ sled_tree = call.before
                            /\ {got[i] : i \in DOMAIN got} = Selected
                            /\ \A i, j \in DOMAIN got :
                                  i < j => key_less(call.ks, got[i], got[j])

\* C38: a clear of a key space that returns Ok has removed the entries of
\* that key space and has left the entries of the other key spaces of the
\* tree as they were.
C38_ClearOnlyKeySpace ==
    (RangeOk /\ range_call[1].op = "clear") =>
        LET call == range_call[1] IN
        /\ KeysIn(sled_tree, call.ks) = {}
        /\ OtherSpaces(sled_tree, call.ks) = OtherSpaces(call.before, call.ks)

\* C21 witness: a range of the integer key space returned two keys, 1 before
\* 2, while the tree also holds a key of the string key space.
C21_Witness ==
    /\ RangeOk
    /\ range_call[1].op = "range"
    /\ range_call[1].ks = 1
    /\ range_call[1].result.ok = <<1, 2>>
    /\ OtherSpaces(sled_tree, 1) # {}

(***************************************************************************)
(* SimpleDomain::overflow_cast: the saturating cast of a domain [min, max] *)
(* of one integer type to another. The types are those whose values fit    *)
(* the integers of the model checker: 8, 16 and signed 32 bits, at their   *)
(* real width.                                                             *)
(***************************************************************************)
IntTypes == {"UInt8", "UInt16", "Int8", "Int16", "Int32"}

\* T::MIN and T::MAX
NumberMin(t) ==
    CASE t = "UInt8" -> 0
      [] t = "UInt16" -> 0
      [] t = "Int8" -> -128
      [] t = "Int16" -> -32768
      [] t = "Int32" -> -2147483647 - 1

NumberMax(t) ==
    CASE t = "UInt8" -> 255
      [] t = "UInt16" -> 65535
      [] t = "Int8" -> 127
      [] t = "Int16" -> 32767
      [] t = "Int32" -> 2147483647

Representable(v, t) == NumberMin(t) <= v /\ v <= NumberMax(t)

\* The values a domain is drawn from: those within CastSpread of the least
\* and the greatest value of every type.
CastPoints ==
    UNION {{NumberMin(t) + d : d \in 0 .. CastSpread}
             \cup {NumberMax(t) - d : d \in 0 .. CastSpread}
             \cup (IF t = "Int32" THEN {}
                   ELSE {NumberMin(t) - d : d \in 1 .. CastSpread}
                          \cup {NumberMax(t) + d : d \in 1 .. CastSpread}) :
           t \in IntTypes}

ValuesOf(t) == {v \in CastPoints : Representable(v, t)}

\* num_traits::cast: None when the value is not representable in the target.
num_traits_cast(v, t) == IF Representable(v, t) THEN Some(v) ELSE None

unwrap_or(o, default) == IF o = None THEN default ELSE Unwrap(o)

\* Ord::clamp, which panics when lo > hi.
clamp(v, lo, hi) ==
    IF lo > hi THEN None
    ELSE Some(IF v < lo THEN lo ELSE IF v > hi THEN hi ELSE v)

\* Mutant: no cast is reported as overflowing.
never_overflowing(src, src_clamp) == FALSE

\* "let overflowing = src != src_clamp"
is_overflowing(src, src_clamp) == src # src_clamp

\* fn overflow_cast_with_minmax::<T, U>(src, min, max): clamp src in T to the
\* bounds cast from U, then cast it to U. A panic is dest = None.
overflow_cast_with_minmax(T, U, src, min, max) ==
    LET dest_min == unwrap_or(num_traits_cast(min, T), NumberMin(T))
        dest_max == unwrap_or(num_traits_cast(max, T), NumberMax(T))
        src_clamp == clamp(src, dest_min, dest_max)
    IN IF src_clamp = None THEN [dest |-> None, overflowing |-> FALSE]
       ELSE [dest |-> num_traits_cast(Unwrap(src_clamp), U),
             overflowing |-> is_overflowing(src, Unwrap(src_clamp))]

\* SimpleDomain::overflow_cast_with_minmax: the second call is given the min
\* that the first one returned, which shadows the parameter.
domain_overflow_cast_with_minmax(T, U, domain, min, max) ==
    LET lo == overflow_cast_with_minmax(T, U, domain.min, min, max)
    IN IF lo.dest = None THEN [panic |-> TRUE]
       ELSE LET hi == overflow_cast_with_minmax(T, U, domain.max, Unwrap(lo.dest), max)
            IN IF hi.dest = None THEN [panic |-> TRUE]
               ELSE [panic |-> FALSE, min |-> Unwrap(lo.dest), max |-> Unwrap(hi.dest),
                     overflowing |-> lo.overflowing \/ hi.overflowing]

\* SimpleDomain::overflow_cast
overflow_cast(T, U, domain) ==
    domain_overflow_cast_with_minmax(T, U, domain, NumberMin(U), NumberMax(U))

OverflowCastInit ==
    /\ \E T \in IntTypes, U \in IntTypes :
          \E lo \in ValuesOf(T), hi \in ValuesOf(T) :
             /\ lo <= hi
             /\ ocast = [T |-> T, U |-> U, domain |-> [min |-> lo, max |-> hi],
                         result |-> None]
    /\ ForwardIdle
    /\ CascadesIdle
    /\ TxnIdle
    /\ JoinIdle
    /\ SnapshotIdle
    /\ StoreIdle
    /\ ReplayIdle
    /\ LeaderIdle
    /\ StopIdle
    /\ RewriteIdle
    /\ MarkIdle
    /\ ElectionIdle
    /\ UafIdle
    /\ RangeIdle
    /\ LeaveIdle
    /\ ScalarIdle
    /\ AnyIdle
    /\ BootIdle
    /\ AddNodeIdle
    /\ SuperTypeIdle
    /\ PartitionsIdle
    /\ PipelineIdle
    /\ RewriterIdle

OverflowCast ==
    /\ ocast.result = None
    /\ ocast' = [ocast EXCEPT !.result = Some(overflow_cast(ocast.T, ocast.U, ocast.domain))]
    /\ UNCHANGED notOverflowCast

OverflowCastNext == OverflowCast

SpecOverflowCast == OverflowCastInit /\ [][OverflowCastNext]_vars

\* The value of the target type nearest to v.
Saturated(v, t) ==
    IF v < NumberMin(t) THEN NumberMin(t) ELSE IF v > NumberMax(t) THEN NumberMax(t) ELSE v

\* C31: for integer source and target types overflow_cast returns the domain
\* [clamp(min), clamp(max)], clamp saturating to the range of the target type,
\* with result min <= result max, and the overflow flag is true iff min or max
\* of the source domain lies outside the range of the target type.
C31_OverflowCastSaturates ==
    \A r \in ocast.result :
        /\ ~r.panic
        /\ r.min = Saturated(ocast.domain.min, ocast.U)
        /\ r.max = Saturated(ocast.domain.max, ocast.U)
        /\ r.min <= r.max
        /\ r.overflowing <=> (\/ ~Representable(ocast.domain.min, ocast.U)
                              \/ ~Representable(ocast.domain.max, ocast.U))

\* C31 witness: the Int16 domain [-129, 128] cast to Int8 gave [-128, 127]
\* with the overflow flag.
C31_Witness ==
    /\ ocast # <<>>
    /\ ocast.T = "Int16" /\ ocast.U = "Int8"
    /\ ocast.domain = [min |-> -129, max |-> 128]
    /\ ocast.result = {[panic |-> FALSE, min |-> -128, max |-> 127, overflowing |-> TRUE]}

\* ---------------------------------------------------------------------------
\* MetaNode::add_node (raftmeta.rs 887-910): the AddNode entry is written with
\* write, which returns after the entry is applied, and then the node is added
\* to raft as a learner.
\* ---------------------------------------------------------------------------

MaxAddNode == 2

AddNodeIds == 1 .. NumNodes

\* The errors write returns: those of handle_forwardable_request.
WriteErrors == {"ForwardToLeader", CanNotForwardMax, CanNotForwardNoLeader,
                "GetNodeAddrError", "ConnectionError", "DataError"}

AddLearnerErrors == {"ForwardToLeader", "Fatal"}

\* resp is "unbound" until `let resp` binds it at 895.
NoAddNode == [pc |-> "idle", node_id |-> 0, resp |-> "unbound",
              add_learner_called |-> FALSE, ret |-> None]

never_failed(res) == FALSE

\* `.await?` at 901: an error of write is returned at once.
write_failed(res) == res.err # None

\* The closure of map_err at 905-908.
map_err(e) ==
    CASE e = "ForwardToLeader" -> "MetaAPIError::ForwardToLeader"
      [] e = "Fatal"           -> "MetaAPIError::DataError(MetaDataError::WriteError)"

\* The start of a call of add_node.
AddNodeCall ==
    /\ add_node.pc = "idle"
    /\ add_node_calls < MaxAddNode
    /\ \E node_id \in AddNodeIds :
          add_node' = [NoAddNode EXCEPT !.pc = "write", !.node_id = node_id]
    /\ add_node_calls' = add_node_calls + 1
    /\ UNCHANGED <<sm_nodes, learners>>
    /\ UNCHANGED notAddNode

\* self.write(LogEntry { cmd: Cmd::AddNode { node_id, node } }).await?
\* Ok carries the AppliedState of the entry: the entry is in the state machine.
AddNodeWrite ==
    /\ add_node.pc = "write"
    /\ \E res \in {[err |-> None]} \cup {[err |-> Some(e)] : e \in WriteErrors} :
          /\ sm_nodes' = IF res.err = None THEN sm_nodes \cup {add_node.node_id}
                                           ELSE sm_nodes
          /\ add_node' =
                IF write_failed(res)
                THEN [add_node EXCEPT !.pc = "done",
                                      !.ret = Some([ok |-> FALSE, value |-> Unwrap(res.err)])]
                ELSE [add_node EXCEPT !.pc = "add_learner",
                                      !.resp = IF res.err = None THEN "AppliedState"
                                                                 ELSE "unbound"]
    /\ UNCHANGED <<learners, add_node_calls>>
    /\ UNCHANGED notAddNode

\* self.raft.add_learner(node_id, false).await.map_err(..)?; Ok(resp)
AddLearner ==
    /\ add_node.pc = "add_learner"
    /\ \E res \in {[err |-> None]} \cup {[err |-> Some(e)] : e \in AddLearnerErrors} :
          /\ learners' = IF res.err = None THEN learners \cup {add_node.node_id}
                                           ELSE learners
          /\ add_node' =
                [add_node EXCEPT
                    !.pc = "done",
                    !.add_learner_called = TRUE,
                    !.ret = IF res.err # None
                            THEN Some([ok |-> FALSE, value |-> map_err(Unwrap(res.err))])
                            ELSE Some([ok |-> TRUE, value |-> add_node.resp])]
    /\ UNCHANGED <<sm_nodes, add_node_calls>>
    /\ UNCHANGED notAddNode

\* The caller takes the result.
AddNodeReturn ==
    /\ add_node.pc = "done"
    /\ add_node' = NoAddNode
    /\ UNCHANGED <<sm_nodes, learners, add_node_calls>>
    /\ UNCHANGED notAddNode

AddNodeInit ==
    /\ add_node = NoAddNode
    /\ add_node_calls = 0
    /\ sm_nodes = {}
    /\ learners = {}
    /\ ForwardIdle
    /\ CascadesIdle
    /\ TxnIdle
    /\ JoinIdle
    /\ SnapshotIdle
    /\ StoreIdle
    /\ ReplayIdle
    /\ LeaderIdle
    /\ StopIdle
    /\ RewriteIdle
    /\ MarkIdle
    /\ ElectionIdle
    /\ UafIdle
    /\ RangeIdle
    /\ LeaveIdle
    /\ ScalarIdle
    /\ AnyIdle
    /\ BootIdle
    /\ OverflowCastIdle
    /\ SuperTypeIdle
    /\ PartitionsIdle
    /\ PipelineIdle
    /\ RewriterIdle

AddNodeNext ==
    \/ AddNodeCall
    \/ AddNodeWrite
    \/ AddLearner
    \/ AddNodeReturn

SpecAddNode == AddNodeInit /\ [][AddNodeNext]_vars

\* C34, state part: add_learner has been called only when the write returned Ok
\* and the AddNode entry of the node is applied; a call that ended with an
\* error of write did not call add_learner; after add_learner the result is Ok
\* with the response of the write or one of the two mapped errors.
C34_AddLearnerAfterApplied ==
    /\ add_node.add_learner_called =>
          /\ add_node.resp = "AppliedState"
          /\ add_node.node_id \in sm_nodes
          /\ add_node.ret # None
          /\ LET res == Unwrap(add_node.ret) IN
                IF res.ok
                THEN res.value = "AppliedState"
                ELSE res.value \in {"MetaAPIError::ForwardToLeader",
                                    "MetaAPIError::DataError(MetaDataError::WriteError)"}
    /\ add_node.resp = "unbound" => ~add_node.add_learner_called
    /\ learners \subseteq sm_nodes

\* C34, step part: the set of learners changes only in the step that calls
\* add_learner, for the node of the call, with its entry applied before the
\* step; a failing add_learner leaves the applied entries as they are, and
\* no step of add_node removes an applied entry.
C34_Step ==
    /\ learners' # learners =>
          /\ add_node.pc = "add_learner"
          /\ add_node.node_id \in sm_nodes
          /\ learners' = learners \cup {add_node.node_id}
    /\ (add_node.pc = "add_learner" /\ add_node'.pc = "done") =>
          /\ sm_nodes' = sm_nodes
          /\ (~Unwrap(add_node'.ret).ok =>
                 /\ learners' = learners
                 /\ add_node.node_id \in sm_nodes')
    /\ sm_nodes \subseteq sm_nodes'

\* C34: add_learner is called only after the AddNode entry is written and
\* applied, it is not called when the write fails, its error is returned
\* mapped, and the applied entry is not rolled back.
C34_AddLearnerAfterWrite == []C34_AddLearnerAfterApplied /\ [][C34_Step]_vars

\* add_learner failed with Fatal after the entry of node 1 was applied.
C34_Witness ==
    /\ add_node.pc = "done"
    /\ add_node.add_learner_called
    /\ add_node.ret = Some([ok |-> FALSE, value |-> "MetaAPIError::DataError(MetaDataError::WriteError)"])
    /\ add_node.node_id \in sm_nodes
    /\ add_node.node_id \notin learners

\* ---------------------------------------------------------------------------
\* NumberDataType::can_lossless_cast_to and lossless_super_type
\* (number.rs 263-416).
\* ---------------------------------------------------------------------------

NumberDataTypes == {"UInt8", "UInt16", "UInt32", "UInt64",
                    "Int8", "Int16", "Int32", "Int64", "Float32", "Float64"}

\* NumberDataType::new; "panic" is panic!("unsupported numeric type").
NumberDataType_new(width, signed, float) ==
    CASE ~signed /\ ~float /\ width = 8  -> "UInt8"
      [] ~signed /\ ~float /\ width = 16 -> "UInt16"
      [] ~signed /\ ~float /\ width = 32 -> "UInt32"
      [] ~signed /\ ~float /\ width = 64 -> "UInt64"
      [] signed /\ ~float /\ width = 8   -> "Int8"
      [] signed /\ ~float /\ width = 16  -> "Int16"
      [] signed /\ ~float /\ width = 32  -> "Int32"
      [] signed /\ ~float /\ width = 64  -> "Int64"
      [] signed /\ float /\ width = 32   -> "Float32"
      [] signed /\ float /\ width = 64   -> "Float64"
      [] OTHER -> "panic"

bit_width(t) ==
    CASE t \in {"UInt8", "Int8"} -> 8
      [] t \in {"UInt16", "Int16"} -> 16
      [] t \in {"UInt32", "Int32", "Float32"} -> 32
      [] t \in {"UInt64", "Int64", "Float64"} -> 64

is_signed(t) == t \notin {"UInt8", "UInt16", "UInt32", "UInt64"}

is_float(t) == t \in {"Float32", "Float64"}

next_bit_width(width) ==
    CASE width = 8  -> Some(16)
      [] width = 16 -> Some(32)
      [] width = 32 -> Some(64)
      [] width = 64 -> None

max_bit_with(lhs, rhs) == IF lhs > rhs THEN lhs ELSE rhs

can_lossless_cast_to(self, dest) ==
    CASE is_float(self) /\ is_float(dest)   -> bit_width(self) <= bit_width(dest)
      [] is_float(self) /\ ~is_float(dest)  -> FALSE
      [] ~is_float(self) /\ is_float(dest)  -> bit_width(self) < bit_width(dest)
      [] ~is_float(self) /\ ~is_float(dest) ->
            CASE is_signed(self) = is_signed(dest) -> bit_width(self) <= bit_width(dest)
              [] ~is_signed(self) /\ is_signed(dest) ->
                    LET self_next_bit_width == next_bit_width(bit_width(self)) IN
                    IF IsSome(self_next_bit_width)
                    THEN Unwrap(self_next_bit_width) <= bit_width(dest)
                    ELSE FALSE
              [] is_signed(self) /\ ~is_signed(dest) -> FALSE

\* The Option<NumberDataType> lossless_super_type returns; `return None` is
\* the ELSE of each mixed case.
lossless_super_type(self, other) ==
    LET next_self == next_bit_width(bit_width(self))
        next_other == next_bit_width(bit_width(other))
    IN
    CASE is_float(self) /\ is_float(other) ->
            Some(NumberDataType_new(max_bit_with(bit_width(self), bit_width(other)), TRUE, TRUE))
      [] is_float(self) /\ ~is_float(other) ->
            IF IsSome(next_other)
            THEN Some(NumberDataType_new(max_bit_with(bit_width(self), Unwrap(next_other)), TRUE, TRUE))
            ELSE None
      [] ~is_float(self) /\ is_float(other) ->
            IF IsSome(next_self)
            THEN Some(NumberDataType_new(max_bit_with(Unwrap(next_self), bit_width(other)), TRUE, TRUE))
            ELSE None
      [] ~is_float(self) /\ ~is_float(other) ->
            CASE is_signed(self) /\ is_signed(other) ->
                    Some(NumberDataType_new(max_bit_with(bit_width(self), bit_width(other)), TRUE, FALSE))
              [] ~is_signed(self) /\ ~is_signed(other) ->
                    Some(NumberDataType_new(max_bit_with(bit_width(self), bit_width(other)), FALSE, FALSE))
              [] ~is_signed(self) /\ is_signed(other) ->
                    IF IsSome(next_other)
                    THEN Some(NumberDataType_new(max_bit_with(bit_width(self), Unwrap(next_other)), TRUE, FALSE))
                    ELSE None
              [] is_signed(self) /\ ~is_signed(other) ->
                    IF IsSome(next_self)
                    THEN Some(NumberDataType_new(max_bit_with(Unwrap(next_self), bit_width(other)), TRUE, FALSE))
                    ELSE None

\* a.lossless_super_type(b)
LosslessSuperType ==
    /\ ~super_type.called
    /\ super_type' = [super_type EXCEPT
                         !.called = TRUE,
                         !.result = lossless_super_type(super_type.a, super_type.b)]
    /\ UNCHANGED notSuperType

SuperTypeInit ==
    /\ \E a \in NumberDataTypes, b \in NumberDataTypes :
          super_type = [a |-> a, b |-> b, called |-> FALSE, result |-> None]
    /\ ForwardIdle
    /\ CascadesIdle
    /\ TxnIdle
    /\ JoinIdle
    /\ SnapshotIdle
    /\ StoreIdle
    /\ ReplayIdle
    /\ LeaderIdle
    /\ StopIdle
    /\ RewriteIdle
    /\ MarkIdle
    /\ ElectionIdle
    /\ UafIdle
    /\ RangeIdle
    /\ LeaveIdle
    /\ ScalarIdle
    /\ AnyIdle
    /\ BootIdle
    /\ OverflowCastIdle
    /\ AddNodeIdle
    /\ PartitionsIdle
    /\ PipelineIdle
    /\ RewriterIdle

SuperTypeNext == LosslessSuperType

SpecSuperType == SuperTypeInit /\ [][SuperTypeNext]_vars

\* C35: when lossless_super_type(a, b) is Some(c), both a and b can be cast
\* to c without loss.
C35_SuperTypeIsLossless ==
    (super_type.called /\ IsSome(super_type.result)) =>
        LET c == Unwrap(super_type.result) IN
        /\ c \in NumberDataTypes
        /\ can_lossless_cast_to(super_type.a, c)
        /\ can_lossless_cast_to(super_type.b, c)

\* The part of C35 that holds: the type of the pair that can be signed or a
\* float, and every pair of two types of one kind, casts to c without loss.
C35_SameKindIsLossless ==
    (super_type.called /\ IsSome(super_type.result)) =>
        LET c == Unwrap(super_type.result)
            a == super_type.a
            b == super_type.b
        IN
        /\ c \in NumberDataTypes
        /\ (is_float(a) \/ is_float(b) \/ is_signed(a) = is_signed(b)) =>
              can_lossless_cast_to(a, c) /\ can_lossless_cast_to(b, c)

\* ---------------------------------------------------------------------------
\* FuseTable::to_partitions (read_partitions.rs 158-260): the blocks left by
\* pruning are turned into partitions, cut by a pushed-down limit.
\* ---------------------------------------------------------------------------

MaxBlocks == 3
MaxBlockRows == 2
MaxLimit == 3

usize_MAX == 2147483647

\* Block metas are their row counts.
BlockMetas == UNION {[1 .. n -> 0 .. MaxBlockRows] : n \in 0 .. MaxBlocks}

\* Extras: order_by and filters are their lengths.
ExtrasOf ==
    [limit : OptionOf(0 .. MaxLimit), order_by : {0, 1}, filters : {0, 1},
     projection : OptionOf({"projection"})]

\* Statistics::default_exact()
default_exact == [read_rows |-> 0, is_exact |-> TRUE]

last_block_inclusive(remaining, rows) == remaining < rows

\* `if remaining > rows { remaining -= rows } else { .. break }`
last_block(remaining, rows) == ~(remaining > rows)

\* The for loop of all_columns_partitions and of projection_partitions from
\* block i on; part(i) is the part pushed for block i.
RECURSIVE push_parts(_, _, _, _, _)
push_parts(metas, i, remaining, acc, projected) ==
    IF i > Len(metas) THEN acc
    ELSE
        LET rows == metas[i]
            pushed == [statistics |-> [acc.statistics EXCEPT !.read_rows = @ + rows],
                       partitions |-> Append(acc.partitions,
                                             [block |-> i, projected |-> projected])]
        IN
        IF ~last_block(remaining, rows)
        THEN push_parts(metas, i + 1, remaining - rows, pushed, projected)
        ELSE IF remaining # rows
             THEN [pushed EXCEPT !.statistics.is_exact = FALSE]
             ELSE pushed

all_columns_partitions(metas, limit) ==
    LET start == [statistics |-> default_exact, partitions |-> <<>>] IN
    IF limit = 0 THEN start ELSE push_parts(metas, 1, limit, start, FALSE)

projection_partitions(metas, limit) ==
    LET start == [statistics |-> default_exact, partitions |-> <<>>] IN
    IF limit = 0 THEN start ELSE push_parts(metas, 1, limit, start, TRUE)

\* FuseTable::is_exact
is_exact(push_downs) ==
    IF push_downs = None THEN TRUE ELSE Unwrap(push_downs).filters = 0

\* push_down.as_ref().filter(|p| p.order_by.is_empty()).and_then(|p| p.limit)
\*     .unwrap_or(usize::MAX)
pushed_limit(push_down) ==
    IF push_down # None /\ Unwrap(push_down).order_by = 0 /\ Unwrap(push_down).limit # None
    THEN Unwrap(Unwrap(push_down).limit)
    ELSE usize_MAX

to_partitions(blocks_metas, push_down) ==
    LET limit == pushed_limit(push_down)
        res == IF push_down = None \/ Unwrap(push_down).projection = None
               THEN all_columns_partitions(blocks_metas, limit)
               ELSE projection_partitions(blocks_metas, limit)
    IN [res EXCEPT !.statistics.is_exact = @ /\ is_exact(push_down)]

ToPartitions ==
    /\ read_parts.result = None
    /\ read_parts' = [read_parts EXCEPT
                         !.result = Some(to_partitions(read_parts.blocks_metas,
                                                       read_parts.push_down))]
    /\ UNCHANGED notPartitions

PartitionsInit ==
    /\ \E metas \in BlockMetas, push_down \in OptionOf(ExtrasOf) :
          read_parts = [blocks_metas |-> metas, push_down |-> push_down, result |-> None]
    /\ ForwardIdle
    /\ CascadesIdle
    /\ TxnIdle
    /\ JoinIdle
    /\ SnapshotIdle
    /\ StoreIdle
    /\ ReplayIdle
    /\ LeaderIdle
    /\ StopIdle
    /\ RewriteIdle
    /\ MarkIdle
    /\ ElectionIdle
    /\ UafIdle
    /\ RangeIdle
    /\ LeaveIdle
    /\ ScalarIdle
    /\ AnyIdle
    /\ BootIdle
    /\ OverflowCastIdle
    /\ AddNodeIdle
    /\ SuperTypeIdle
    /\ PipelineIdle
    /\ RewriterIdle

PartitionsNext == ToPartitions

SpecPartitions == PartitionsInit /\ [][PartitionsNext]_vars

\* The rows of the first k blocks.
RECURSIVE RowsOfPrefix(_, _)
RowsOfPrefix(metas, k) == IF k = 0 THEN 0 ELSE RowsOfPrefix(metas, k - 1) + metas[k]

\* The length of the shortest prefix with at least L rows, all blocks if none.
ShortestPrefix(metas, L) ==
    CHOOSE k \in 0 .. Len(metas) :
        /\ RowsOfPrefix(metas, k) >= L \/ k = Len(metas)
        /\ \A j \in 0 .. (k - 1) : RowsOfPrefix(metas, j) < L

BlocksOf(partitions) == [i \in 1 .. Len(partitions) |-> partitions[i].block]

\* C36: with a limit L > 0 and no order-by the partitions are the shortest
\* prefix of the blocks with at least L rows (all blocks when there are fewer
\* rows), read_rows is the rows of those blocks and is_exact says that there
\* are no filters and the prefix has no more than L rows; with L = 0 there are
\* no partitions and no read rows; with an order-by the limit does not count.
C36_LimitTakesShortestPrefix ==
    (read_parts # <<>> /\ read_parts.result # None /\ read_parts.push_down # None) =>
        LET metas == read_parts.blocks_metas
            extras == Unwrap(read_parts.push_down)
            res == Unwrap(read_parts.result)
            all == [i \in 1 .. Len(metas) |-> i]
        IN
        /\ (extras.order_by = 0 /\ extras.limit # None /\ Unwrap(extras.limit) > 0) =>
              LET L == Unwrap(extras.limit)
                  k == ShortestPrefix(metas, L)
              IN
              /\ BlocksOf(res.partitions) = SubSeq(all, 1, k)
              /\ res.statistics.read_rows = RowsOfPrefix(metas, k)
              /\ res.statistics.is_exact <=>
                    (extras.filters = 0 /\ RowsOfPrefix(metas, k) <= L)
        /\ (extras.order_by = 0 /\ extras.limit = Some(0)) =>
              /\ res.partitions = <<>>
              /\ res.statistics.read_rows = 0
        /\ extras.order_by # 0 =>
              /\ BlocksOf(res.partitions) = all
              /\ res.statistics.read_rows = RowsOfPrefix(metas, Len(metas))
              /\ res = to_partitions(metas, Some([extras EXCEPT !.limit = None]))

\* Limit 2 over blocks of 1, 2 and 1 rows: two blocks, three rows, not exact.
C36_Witness ==
    /\ read_parts # <<>>
    /\ read_parts.blocks_metas = <<1, 2, 1>>
    /\ read_parts.push_down =
          Some([limit |-> Some(2), order_by |-> 0, filters |-> 0, projection |-> None])
    /\ read_parts.result # None
    /\ BlocksOf(Unwrap(read_parts.result).partitions) = <<1, 2>>
    /\ Unwrap(read_parts.result).statistics = [read_rows |-> 3, is_exact |-> FALSE]

\* ---------------------------------------------------------------------------
\* Pipeline::set_on_finished, take_on_finished and Drop (pipeline.rs 181-221).
\* A callback is [id, fails]: fails says that it returns Err. The closure in
\* on_finished is the sequence of the callbacks it calls, in the order it
\* calls them.
\* ---------------------------------------------------------------------------

MaxCallbacks == 3

NewPipeline == [on_finished |-> None, dropped |-> FALSE, set_log |-> <<>>, taken_at |-> None]

compose_reversed(old_finished, f) == <<f>> \o old_finished

\* move |may_error| { old_finished(may_error)?; f(may_error) }
compose(old_finished, f) == Append(old_finished, f)

\* The calls a closure makes when it is called with may_error: each callback
\* in turn, until one returns Err (the `?`).
RECURSIVE calls_of(_, _)
calls_of(closure, may_error) ==
    IF closure = <<>> THEN <<>>
    ELSE IF Head(closure).fails
         THEN <<[callback |-> Head(closure).id, may_error |-> may_error]>>
         ELSE <<[callback |-> Head(closure).id, may_error |-> may_error]>>
                 \o calls_of(Tail(closure), may_error)

\* Pipeline::set_on_finished(f); set_log is the history of the registrations.
SetOnFinished ==
    /\ pipeline # <<>>
    /\ ~pipeline.dropped
    /\ Len(pipeline.set_log) < MaxCallbacks
    /\ \E fails \in BOOLEAN :
          LET f == [id |-> Len(pipeline.set_log) + 1, fails |-> fails] IN
          pipeline' = [pipeline EXCEPT
                          !.on_finished =
                              IF IsSome(pipeline.on_finished)
                              THEN Some(compose(Unwrap(pipeline.on_finished), f))
                              ELSE Some(<<f>>),
                          !.set_log = Append(@, f)]
    /\ UNCHANGED invoked
    /\ UNCHANGED notPipeline

\* Pipeline::take_on_finished: the closure goes to the caller; taken_at is the
\* history of how many callbacks were registered at the last take.
TakeOnFinished ==
    /\ pipeline # <<>>
    /\ ~pipeline.dropped
    /\ pipeline' = [pipeline EXCEPT !.on_finished = None,
                                    !.taken_at = Some(Len(pipeline.set_log))]
    /\ UNCHANGED invoked
    /\ UNCHANGED notPipeline

\* Drop for Pipeline: (on_finished)(&None).ok()
DropPipeline ==
    /\ pipeline # <<>>
    /\ ~pipeline.dropped
    /\ invoked' =
          IF IsSome(pipeline.on_finished)
          THEN invoked \o calls_of(Unwrap(pipeline.on_finished), None)
          ELSE invoked
    /\ pipeline' = [pipeline EXCEPT !.on_finished = None, !.dropped = TRUE]
    /\ UNCHANGED notPipeline

PipelineInit ==
    /\ pipeline = NewPipeline
    /\ invoked = <<>>
    /\ ForwardIdle
    /\ CascadesIdle
    /\ TxnIdle
    /\ JoinIdle
    /\ SnapshotIdle
    /\ StoreIdle
    /\ ReplayIdle
    /\ LeaderIdle
    /\ StopIdle
    /\ RewriteIdle
    /\ MarkIdle
    /\ ElectionIdle
    /\ UafIdle
    /\ RangeIdle
    /\ LeaveIdle
    /\ ScalarIdle
    /\ AnyIdle
    /\ BootIdle
    /\ OverflowCastIdle
    /\ AddNodeIdle
    /\ SuperTypeIdle
    /\ PartitionsIdle
    /\ RewriterIdle

PipelineNext ==
    \/ SetOnFinished
    \/ TakeOnFinished
    \/ DropPipeline

SpecPipeline == PipelineInit /\ [][PipelineNext]_vars

CallsWithNone(callbacks) ==
    [i \in 1 .. Len(callbacks) |-> [callback |-> callbacks[i].id, may_error |-> None]]

InvokedOnce ==
    \A i \in 1 .. Len(invoked), j \in 1 .. Len(invoked) :
        invoked[i].callback = invoked[j].callback => i = j

\* C37 as stated: a dropped pipeline has invoked every registered callback
\* once, in registration order and with None, if take_on_finished was never
\* called, and none if it was called; no callback is invoked twice.
C37_DropInvokesRegistered ==
    pipeline # <<>> =>
        /\ pipeline.dropped =>
              IF pipeline.taken_at = None
              THEN invoked = CallsWithNone(pipeline.set_log)
              ELSE invoked = <<>>
        /\ InvokedOnce

\* The callbacks registered after the last take_on_finished, up to the first
\* of them that returns Err.
RECURSIVE UntilError(_)
UntilError(callbacks) ==
    IF callbacks = <<>> THEN <<>>
    ELSE IF Head(callbacks).fails THEN <<Head(callbacks)>>
         ELSE <<Head(callbacks)>> \o UntilError(Tail(callbacks))

SinceLastTake ==
    LET from == IF pipeline.taken_at = None THEN 0 ELSE Unwrap(pipeline.taken_at)
    IN SubSeq(pipeline.set_log, from + 1, Len(pipeline.set_log))

\* C37, amended: a dropped pipeline has invoked, with None and in registration
\* order, the callbacks registered after the last take_on_finished up to the
\* first of them that returns Err, each once; before the drop the pipeline
\* invokes nothing; no callback is invoked twice.
C37_DropInvokesUntilError ==
    pipeline # <<>> =>
        /\ pipeline.dropped => invoked = CallsWithNone(UntilError(SinceLastTake))
        /\ ~pipeline.dropped => invoked = <<>>
        /\ InvokedOnce

\* Three callbacks, the second returns Err: the drop calls the first two.
C37_Witness ==
    /\ pipeline # <<>>
    /\ pipeline.dropped
    /\ pipeline.taken_at = None
    /\ pipeline.set_log = <<[id |-> 1, fails |-> FALSE], [id |-> 2, fails |-> TRUE],
                            [id |-> 3, fails |-> FALSE]>>
    /\ invoked = <<[callback |-> 1, may_error |-> None], [callback |-> 2, may_error |-> None]>>

\* ---------------------------------------------------------------------------
\* SubqueryRewriter::rewrite and try_rewrite_subquery over whole plans
\* (subquery_rewriter.rs 80-348), for uncorrelated subqueries.
\* ---------------------------------------------------------------------------

MaxItems == 1

Ok(v) == [ok |-> TRUE, value |-> v]
LogicalError == [ok |-> FALSE, err |-> "LogicalError"]

Leaf(operator) == [plan |-> [operator |-> operator], children |-> <<>>]

SubqueryExpr(typ, subquery) ==
    [kind |-> "SubqueryExpr", typ |-> typ, subquery |-> subquery,
     child_expr |-> column_ref, compare_op |-> "Equal"]

EvalScalarOf(items, child) ==
    create_unary([operator |-> "EvalScalar", items |-> items], child)

\* The subqueries of the plans that are rewritten: of each type over a table,
\* over a physical scan, and over a plan that has a subquery of its own.
SubqueryExprs ==
    {SubqueryExpr(typ, Leaf("LogicalGet")) : typ \in SubqueryTypes}
        \cup {SubqueryExpr("Scalar", Leaf("PhysicalScan")),
              SubqueryExpr("Scalar",
                           EvalScalarOf(<<SubqueryExpr("Exists", Leaf("LogicalGet"))>>,
                                        Leaf("LogicalGet")))}

LeafScalars == {column_ref, [kind |-> "ConstantExpr", value |-> 1]} \cup SubqueryExprs

Binary(kind, left, right) == [kind |-> kind, left |-> left, right |-> right]

AggregateFunction(args) == [kind |-> "AggregateFunction", args |-> args]

\* The scalars of the plans: a leaf, or one operator over leaves.
PlanScalars ==
    LeafScalars
        \cup {CastExpr(s) : s \in LeafScalars}
        \cup {AggregateFunction(<<s>>) : s \in LeafScalars}
        \cup {FunctionCall("f", <<s, column_ref>>) : s \in LeafScalars}
        \cup {Binary(kind, s, column_ref) :
                 kind \in {"AndExpr", "OrExpr", "ComparisonExpr"}, s \in LeafScalars}
        \cup {Binary(kind, column_ref, s) :
                 kind \in {"AndExpr", "OrExpr", "ComparisonExpr"}, s \in LeafScalars}

ItemLists == UNION {[1 .. n -> PlanScalars] : n \in 1 .. MaxItems}

PlanInputs ==
    {Leaf("LogicalGet"), Leaf("DummyTableScan"), Leaf("PhysicalScan"), Leaf("Pattern"),
     create_unary([operator |-> "Limit"], Leaf("LogicalGet")),
     create_unary([operator |-> "Sort"], Leaf("Exchange")),
     create_binary([operator |-> "UnionAll"], Leaf("LogicalGet"), Leaf("PhysicalHashJoin"))}

Plans ==
    UNION {
        {EvalScalarOf(items, child),
         create_unary([operator |-> "Filter", predicates |-> items], child),
         create_unary([operator |-> "Aggregate", group_items |-> items,
                       aggregate_functions |-> <<>>], child),
         create_unary([operator |-> "Aggregate", group_items |-> <<>>,
                       aggregate_functions |-> items], child)} :
        items \in ItemLists, child \in PlanInputs}

\* try_rewrite_uncorrelated_subquery with its plans: the join of left with
\* the subquery and the UnnestResult.
unnest_uncorrelated(left, subquery) ==
    CASE subquery.typ = "Scalar" ->
            Ok([s_expr |-> create_binary([operator |-> "LogicalInnerJoin",
                                          join_type |-> "Single"],
                                         left, subquery.subquery),
                result |-> "SingleJoin"])
      [] subquery.typ \in {"Exists", "NotExists"} ->
            LET limit == [operator |-> "Limit", limit |-> Some(1), offset |-> 0]
                agg == [operator |-> "Aggregate", group_items |-> <<>>,
                        aggregate_functions |-> <<AggregateFunction(<<>>)>>]
                compare == Binary("ComparisonExpr", column_ref,
                                  [kind |-> "ConstantExpr", value |-> 1])
                filter == [operator |-> "Filter", predicates |-> <<compare>>]
                rewritten_subquery ==
                    create_unary(filter,
                        create_unary(agg, create_unary(limit, subquery.subquery)))
            IN Ok([s_expr |-> create_binary([operator |-> "LogicalInnerJoin",
                                             join_type |-> "Cross"],
                                            left, rewritten_subquery),
                   result |-> "SimpleJoin"])
      [] subquery.typ = "Any" ->
            LET r == rewrite_any(subquery.child_expr, subquery.compare_op) IN
            IF r.result # "MarkJoin" THEN LogicalError
            ELSE Ok([s_expr |-> create_binary([operator |-> "LogicalInnerJoin",
                                               join_type |-> r.join_type],
                                              subquery.subquery, left),
                     result |-> "MarkJoin"])

RECURSIVE rewrite(_)
RECURSIVE try_rewrite_subquery_of(_, _, _)
RECURSIVE rewrite_each(_, _, _)

\* The loops `for item in .. { let res = self.try_rewrite_subquery(..)?;
\* input = res.1; item.scalar = res.0 }`: the rewritten scalars and the input.
rewrite_each(scalars, input, is_conjunctive_predicate) ==
    IF scalars = <<>> THEN Ok([items |-> <<>>, input |-> input])
    ELSE
        LET res == try_rewrite_subquery_of(Head(scalars), input, is_conjunctive_predicate) IN
        IF ~res.ok THEN res
        ELSE
            LET rest == rewrite_each(Tail(scalars), res.value.s_expr,
                                     is_conjunctive_predicate)
            IN IF ~rest.ok THEN rest
               ELSE Ok([items |-> <<res.value.scalar>> \o rest.value.items,
                        input |-> rest.value.input])

\* SubqueryRewriter::try_rewrite_subquery
try_rewrite_subquery_of(scalar, s_expr, is_conjunctive_predicate) ==
    CASE scalar.kind \in {"BoundColumnRef", "ConstantExpr"} ->
            Ok([scalar |-> scalar, s_expr |-> s_expr])
      [] scalar.kind \in {"AndExpr", "OrExpr", "ComparisonExpr"} ->
            LET left == try_rewrite_subquery_of(scalar.left, s_expr, FALSE) IN
            IF ~left.ok THEN left
            ELSE
                LET right == try_rewrite_subquery_of(scalar.right, left.value.s_expr, FALSE) IN
                IF ~right.ok THEN right
                ELSE Ok([scalar |-> Binary(scalar.kind, left.value.scalar, right.value.scalar),
                         s_expr |-> right.value.s_expr])
      [] scalar.kind = "AggregateFunction" ->
            Ok([scalar |-> scalar, s_expr |-> s_expr])
      [] scalar.kind = "FunctionCall" ->
            LET args == rewrite_each(scalar.arguments, s_expr, FALSE) IN
            IF ~args.ok THEN args
            ELSE Ok([scalar |-> FunctionCall(scalar.func_name, args.value.items),
                     s_expr |-> args.value.input])
      [] scalar.kind = "CastExpr" ->
            LET arg == try_rewrite_subquery_of(scalar.argument, s_expr, FALSE) IN
            IF ~arg.ok THEN arg
            ELSE Ok([scalar |-> CastExpr(arg.value.scalar), s_expr |-> arg.value.s_expr])
      [] scalar.kind = "SubqueryExpr" ->
            LET sub == rewrite(scalar.subquery) IN
            IF ~sub.ok THEN sub
            ELSE
                LET subquery == [scalar EXCEPT !.subquery = sub.value]
                    unnest == unnest_uncorrelated(s_expr, subquery)
                IN
                IF ~unnest.ok THEN unnest
                ELSE IF unnest.value.result = "SimpleJoin"
                THEN Ok([scalar |-> [kind |-> "ConstantExpr", value |-> 1],
                         s_expr |-> unnest.value.s_expr])
                ELSE Ok([scalar |-> replace_subquery(FALSE, subquery.typ),
                         s_expr |-> unnest.value.s_expr])

\* SubqueryRewriter::rewrite
rewrite(s_expr) ==
    LET plan == s_expr.plan
        operator == plan.operator
    IN
    CASE operator \in {"EvalScalar", "Filter", "Aggregate"} ->
            LET input == rewrite(s_expr.children[1]) IN
            IF ~input.ok THEN input
            ELSE
               (CASE operator = "EvalScalar" ->
                        LET res == rewrite_each(plan.items, input.value, FALSE) IN
                        IF ~res.ok THEN res
                        ELSE Ok(create_unary([plan EXCEPT !.items = res.value.items],
                                             res.value.input))
                  [] operator = "Filter" ->
                        LET res == rewrite_each(plan.predicates, input.value, TRUE) IN
                        IF ~res.ok THEN res
                        ELSE Ok(create_unary([plan EXCEPT !.predicates = res.value.items],
                                             res.value.input))
                  [] operator = "Aggregate" ->
                        LET group == rewrite_each(plan.group_items, input.value, FALSE) IN
                        IF ~group.ok THEN group
                        ELSE
                            LET aggs == rewrite_each(plan.aggregate_functions,
                                                     group.value.input, FALSE)
                            IN IF ~aggs.ok THEN aggs
                               ELSE Ok(create_unary(
                                        [plan EXCEPT !.group_items = group.value.items,
                                                     !.aggregate_functions = aggs.value.items],
                                        aggs.value.input)))
      [] operator \in {"LogicalInnerJoin", "UnionAll"} ->
            LET left == rewrite(s_expr.children[1]) IN
            IF ~left.ok THEN left
            ELSE LET right == rewrite(s_expr.children[2]) IN
                 IF ~right.ok THEN right
                 ELSE Ok(create_binary(plan, left.value, right.value))
      [] operator \in {"Limit", "Sort"} ->
            LET child == rewrite(s_expr.children[1]) IN
            IF ~child.ok THEN child ELSE Ok(create_unary(plan, child.value))
      [] operator \in {"DummyTableScan", "LogicalGet"} -> Ok(s_expr)
      [] operator \in {"PhysicalHashJoin", "Pattern", "Exchange", "PhysicalScan"} ->
            LogicalError

\* SubqueryRewriter::rewrite is called for a plan.
RewriteCall ==
    /\ sq_plan # <<>>
    /\ sq_plan.result = None
    /\ sq_plan' = [sq_plan EXCEPT !.result = Some(rewrite(sq_plan.s_expr))]
    /\ UNCHANGED notRewriter

RewriterInit ==
    /\ \E s_expr \in Plans : sq_plan = [s_expr |-> s_expr, result |-> None]
    /\ ForwardIdle
    /\ CascadesIdle
    /\ TxnIdle
    /\ JoinIdle
    /\ SnapshotIdle
    /\ StoreIdle
    /\ ReplayIdle
    /\ LeaderIdle
    /\ StopIdle
    /\ RewriteIdle
    /\ MarkIdle
    /\ ElectionIdle
    /\ UafIdle
    /\ RangeIdle
    /\ LeaveIdle
    /\ ScalarIdle
    /\ AnyIdle
    /\ BootIdle
    /\ OverflowCastIdle
    /\ AddNodeIdle
    /\ SuperTypeIdle
    /\ PartitionsIdle
    /\ PipelineIdle

RewriterNext == RewriteCall

SpecRewriter == RewriterInit /\ [][RewriterNext]_vars

\* A Scalar::SubqueryExpr in a scalar, at any depth.
RECURSIVE HasSubquery(_)
HasSubquery(scalar) ==
    CASE scalar.kind = "SubqueryExpr" -> TRUE
      [] scalar.kind \in {"AndExpr", "OrExpr", "ComparisonExpr"} ->
            HasSubquery(scalar.left) \/ HasSubquery(scalar.right)
      [] scalar.kind = "CastExpr" -> HasSubquery(scalar.argument)
      [] scalar.kind = "FunctionCall" ->
            \E i \in DOMAIN scalar.arguments : HasSubquery(scalar.arguments[i])
      [] scalar.kind = "AggregateFunction" ->
            \E i \in DOMAIN scalar.args : HasSubquery(scalar.args[i])
      [] OTHER -> FALSE

\* The scalars of an operator: items, predicates, group and aggregate items.
ScalarsOf(plan) ==
    CASE plan.operator = "EvalScalar" -> plan.items
      [] plan.operator = "Filter" -> plan.predicates
      [] plan.operator = "Aggregate" -> plan.group_items \o plan.aggregate_functions
      [] OTHER -> <<>>

RECURSIVE PlanHasSubquery(_)
PlanHasSubquery(s_expr) ==
    \/ \E i \in DOMAIN ScalarsOf(s_expr.plan) : HasSubquery(ScalarsOf(s_expr.plan)[i])
    \/ \E i \in DOMAIN s_expr.children : PlanHasSubquery(s_expr.children[i])

RECURSIVE HasPhysical(_)
HasPhysical(s_expr) ==
    \/ s_expr.plan.operator \in {"PhysicalHashJoin", "Pattern", "Exchange", "PhysicalScan"}
    \/ \E i \in DOMAIN s_expr.children : HasPhysical(s_expr.children[i])

PlanRewritten == sq_plan # <<>> /\ sq_plan.result # None

\* C39: a plan that rewrite returns has no SubqueryExpr in the scalars of its
\* EvalScalar, Filter and Aggregate operators, at any depth of the scalar; a
\* plan with a physical or Pattern operator gets LogicalError.
C39_NoSubqueryLeft ==
    PlanRewritten =>
        LET res == Unwrap(sq_plan.result) IN
        /\ res.ok => ~PlanHasSubquery(res.value)
        /\ HasPhysical(sq_plan.s_expr) => ~res.ok /\ res.err = "LogicalError"

\* A subquery in the arguments of an aggregate function.
RECURSIVE HasSubqueryInAggregate(_)
HasSubqueryInAggregate(scalar) ==
    CASE scalar.kind = "AggregateFunction" -> HasSubquery(scalar)
      [] scalar.kind \in {"AndExpr", "OrExpr", "ComparisonExpr"} ->
            HasSubqueryInAggregate(scalar.left) \/ HasSubqueryInAggregate(scalar.right)
      [] scalar.kind = "CastExpr" -> HasSubqueryInAggregate(scalar.argument)
      [] scalar.kind = "FunctionCall" ->
            \E i \in DOMAIN scalar.arguments : HasSubqueryInAggregate(scalar.arguments[i])
      [] OTHER -> FALSE

\* What holds of C39: it holds of every plan that has no subquery in the
\* arguments of an aggregate function.
C39_NoSubqueryLeftOutsideAggregates ==
    (PlanRewritten /\ \A i \in DOMAIN ScalarsOf(sq_plan.s_expr.plan) :
                     ~HasSubqueryInAggregate(ScalarsOf(sq_plan.s_expr.plan)[i])) =>
        LET res == Unwrap(sq_plan.result) IN
        /\ res.ok => ~PlanHasSubquery(res.value)
        /\ HasPhysical(sq_plan.s_expr) => ~res.ok /\ res.err = "LogicalError"

====
